---- MODULE Spec2Model ----
(***************************************************************************)
(* Model of the chat route of Langcache-demo-cloud (the cache-aside and    *)
(* shadow-mode query protocol): searchLangCache, storeInLangCache,         *)
(* callOpenAI and the POST handler of src/unnamed/part_001, lines 264-457. *)
(*                                                                         *)
(* A string is a sequence of one-character strings, so that trim() and     *)
(* length are computed as the code computes them.  The empty sequence      *)
(* stands for every falsy string value (undefined, null, "").              *)
(* An action is one run-to-completion segment of the handler: from one     *)
(* await to the next.  The order of the effects inside a segment is kept   *)
(* in the variable log.                                                    *)
(***************************************************************************)
EXTENDS Integers, Sequences, FiniteSets, TLC

\* ------------------------------------------------------------------ bounds
MaxTurns == 2
MaxLatency == 2

\* ------------------------------------------------------------ value domains
undefined == -1

Messages == { <<"Q">>, <<" ", "Q">>, <<>> }

NoConfig ==
  [present |-> FALSE, shadowMode |-> FALSE, cacheConfigured |-> FALSE, ragEnabled |-> FALSE]

Configs ==
  { [present |-> TRUE, shadowMode |-> s, cacheConfigured |-> k, ragEnabled |-> r] :
      s \in BOOLEAN, k \in BOOLEAN, r \in BOOLEAN }
    \cup { NoConfig }

GenTexts == { <<"G">>, <<"G", " ">>, <<>> }

GenUsages == { undefined, 10, 42 }

Similarities == { undefined, 92, 95 }

Latencies == 1 .. MaxLatency

SeedCache == { [prompt |-> <<"Q">>, response |-> <<"R">>] }

\* --------------------------------------------------------- pure functions
RECURSIVE TrimLeft(_)
TrimLeft(s) == IF s # <<>> /\ Head(s) = " " THEN TrimLeft(Tail(s)) ELSE s

RECURSIVE TrimRight(_)
TrimRight(s) ==
  IF s # <<>> /\ s[Len(s)] = " " THEN TrimRight(SubSeq(s, 1, Len(s) - 1)) ELSE s

Trim(s) == TrimRight(TrimLeft(s))

CeilDiv4(n) == (n + 3) \div 4

OrZero(n) == IF n = undefined \/ n = 0 THEN 0 ELSE n

Placeholder ==
  << "N", "o", " ", "r", "e", "s", "p", "o", "n", "s", "e", " ",
     "g", "e", "n", "e", "r", "a", "t", "e", "d" >>

IndexOf(s, e) ==
  IF \E i \in 1 .. Len(s) : s[i] = e
    THEN CHOOSE i \in 1 .. Len(s) : s[i] = e /\ \A j \in 1 .. (i - 1) : s[j] # e
    ELSE 0

Count(s, e) == Cardinality({ i \in 1 .. Len(s) : s[i] = e })

Has(s, e) == \E i \in 1 .. Len(s) : s[i] = e

\* ------------------------------------------------------- searchLangCache
MissResult ==
  [hit |-> FALSE, response |-> <<>>, similarity |-> undefined, cachedQuery |-> <<>>]

SearchReplyKinds == { "ok", "ok_empty", "http_error", "network_error", "malformed" }

SearchFailureKinds == { "http_error", "network_error", "malformed" }

NoEntry == [prompt |-> <<>>, response |-> <<>>, similarity |-> undefined]

NoReply == [kind |-> "none", entry |-> NoEntry]

searchLangCacheConfigured(c) == c.cacheConfigured

searchLangCacheRequest(query) == [prompt |-> Trim(query)]

searchLangCacheFailureAsHit(reply, query) ==
  IF reply.kind \in { "ok", "http_error" }
    THEN [hit |-> TRUE, response |-> reply.entry.response,
          similarity |-> OrZero(reply.entry.similarity),
          cachedQuery |-> query]
    ELSE MissResult

searchLangCacheResult(reply, query) ==
  IF reply.kind = "ok" /\ reply.entry.response # <<>>
    THEN [hit |-> TRUE,
          response |-> reply.entry.response,
          similarity |-> OrZero(reply.entry.similarity),
          cachedQuery |-> IF reply.entry.prompt # <<>> THEN reply.entry.prompt ELSE query]
    ELSE MissResult

\* ------------------------------------------------------ storeInLangCache
storeInLangCacheRequests(query, resp, c) ==
  IF ~c.cacheConfigured
    THEN {}
    ELSE { [prompt |-> Trim(query), response |-> Trim(resp)] }

StoreReplyKinds == { "ok", "http_error", "network_error" }

\* ------------------------------------------------------------ callOpenAI
GenReplyKinds == { "ok", "http_error", "network_error", "malformed" }

NoOpenAIResult == [ok |-> FALSE, content |-> <<>>, latency |-> 0, tokensUsed |-> 0, error |-> "none"]

callOpenAIIgnoresStatus(reply, lat) ==
  [ok |-> TRUE,
   content |-> IF reply.text # <<>> THEN reply.text ELSE Placeholder,
   latency |-> lat,
   tokensUsed |-> OrZero(reply.usage),
   error |-> "none"]

callOpenAIResult(reply, lat) ==
  IF reply.kind = "ok"
    THEN [ok |-> TRUE,
          content |-> IF reply.text # <<>> THEN reply.text ELSE Placeholder,
          latency |-> lat,
          tokensUsed |-> OrZero(reply.usage),
          error |-> "none"]
    ELSE [ok |-> FALSE, content |-> <<>>, latency |-> 0, tokensUsed |-> 0,
          error |-> reply.kind]

\* ------------------------------------------------------ responses of POST
NoResponse == [kind |-> "none"]

MissingFieldResponse == [kind |-> "error", status |-> 400, error |-> "Missing message or config"]

ErrorResponse(err) == [kind |-> "error", status |-> 500, error |-> err]

ShadowResponseServesCache(cr, oa, m) ==
  [kind |-> "shadow",
   content |-> IF cr.hit THEN cr.response ELSE oa.content,
   cached |-> cr.hit,
   shadowMode |-> TRUE,
   cacheHit |-> cr.hit,
   similarity |-> cr.similarity,
   cachedQuery |-> cr.cachedQuery,
   userQuery |-> m,
   latency |-> oa.latency,
   tokensUsed |-> oa.tokensUsed,
   tokensSaved |-> IF cr.hit THEN oa.tokensUsed ELSE 0]

ShadowResponseNetTokens(cr, oa, m) ==
  [kind |-> "shadow",
   content |-> oa.content,
   cached |-> FALSE,
   shadowMode |-> TRUE,
   cacheHit |-> cr.hit,
   similarity |-> cr.similarity,
   cachedQuery |-> cr.cachedQuery,
   userQuery |-> m,
   latency |-> oa.latency,
   tokensUsed |-> IF cr.hit THEN 0 ELSE oa.tokensUsed,
   tokensSaved |-> IF cr.hit THEN CeilDiv4(Len(m)) + CeilDiv4(Len(cr.response)) ELSE 0]

ShadowResponse(cr, oa, m) ==
  [kind |-> "shadow",
   content |-> oa.content,
   cached |-> FALSE,
   shadowMode |-> TRUE,
   cacheHit |-> cr.hit,
   similarity |-> cr.similarity,
   cachedQuery |-> cr.cachedQuery,
   userQuery |-> m,
   latency |-> oa.latency,
   tokensUsed |-> oa.tokensUsed,
   tokensSaved |-> IF cr.hit THEN oa.tokensUsed ELSE 0]

HitResponse(cr, m, cacheLatency) ==
  [kind |-> "hit",
   content |-> cr.response,
   cached |-> TRUE,
   similarity |-> cr.similarity,
   cachedQuery |-> cr.cachedQuery,
   userQuery |-> m,
   latency |-> cacheLatency,
   tokensSaved |-> CeilDiv4(Len(m)) + CeilDiv4(Len(cr.response))]

FreshResponse(oa, m) ==
  [kind |-> "fresh",
   content |-> oa.content,
   cached |-> FALSE,
   userQuery |-> m,
   latency |-> oa.latency,
   tokensUsed |-> oa.tokensUsed]

\* ==================================================== vector store: data
\* RedisVectorStore of src/lib/redis-vector.ts, the similarity search of
\* src/lib/rag-system.ts and the vector search route of src/unnamed/part_002.
\* A similarity is kept exactly, as num / sqrt(den2); den2 = 0 is NaN.
MaxDim == 2
MaxOps == 2

Components == { -1, 0, 1 }

Vectors == UNION { [1 .. n -> Components] : n \in 0 .. MaxDim }

RECURSIVE DotUpTo(_, _, _)
DotUpTo(a, b, n) == IF n = 0 THEN 0 ELSE DotUpTo(a, b, n - 1) + a[n] * b[n]

ZeroScore == [num |-> 0, den2 |-> 1]

NaNScore == [num |-> 0, den2 |-> 0]

Cosine(a, b) ==
  [num |-> DotUpTo(a, b, Len(a)),
   den2 |-> DotUpTo(a, a, Len(a)) * DotUpTo(b, b, Len(a))]

cosineSimilarityNoLengthCheck(a, b) ==
  IF Len(a) # Len(b) THEN NaNScore
  ELSE IF DotUpTo(a, a, Len(a)) = 0 \/ DotUpTo(b, b, Len(a)) = 0 THEN ZeroScore
  ELSE Cosine(a, b)

\* RedisVectorStore.cosineSimilarity
cosineSimilarity(a, b) ==
  IF Len(a) # Len(b) THEN ZeroScore
  ELSE IF DotUpTo(a, a, Len(a)) = 0 \/ DotUpTo(b, b, Len(a)) = 0 THEN ZeroScore
  ELSE Cosine(a, b)

\* RAGSystem.cosineSimilarity: no test of the norms, 0 / 0 is NaN
ragCosineSimilarity(a, b) ==
  IF Len(a) # Len(b) THEN ZeroScore ELSE Cosine(a, b)

SignedSquare(n) == IF n < 0 THEN 0 - n * n ELSE n * n

\* s >= t and s > t on similarities; every comparison with NaN is false
ScoreGeq(s, t) ==
  /\ s.den2 # 0
  /\ t.den2 # 0
  /\ SignedSquare(s.num) * t.den2 >= SignedSquare(t.num) * s.den2

ScoreGt(s, t) ==
  /\ s.den2 # 0
  /\ t.den2 # 0
  /\ SignedSquare(s.num) * t.den2 > SignedSquare(t.num) * s.den2

\* results.sort((a, b) => b.score - a.score): stable, by decreasing score
InsertByScore(sorted, x) ==
  LET before == { i \in 1 .. Len(sorted) : ScoreGeq(sorted[i].score, x.score) }
      n == Cardinality(before)
  IN SubSeq(sorted, 1, n) \o << x >> \o SubSeq(sorted, n + 1, Len(sorted))

RECURSIVE SortByScore(_)
SortByScore(s) ==
  IF s = <<>> THEN <<>>
  ELSE InsertByScore(SortByScore(SubSeq(s, 1, Len(s) - 1)), s[Len(s)])

\* .slice(0, limit) for a limit >= 0
Slice(s, limit) == SubSeq(s, 1, IF limit < Len(s) THEN limit ELSE Len(s))

\* ---- chunks, records and keys
DocIds == { "d1", "d2" }

ArrayEmbedding(v) == [json |-> "array", v |-> v]

NullEmbedding == [json |-> "null", v |-> <<>>]

VectorChunk(d, i, n, c, e) ==
  [id |-> i, documentId |-> d, content |-> c, embedding |-> e, metadata |-> [chunkIndex |-> n]]

\* the chunk lists given to storeChunks
Batches ==
  { << VectorChunk("d1", "d1_chunk_0", 0, "a", ArrayEmbedding(<<1, 0>>)),
       VectorChunk("d1", "d1_chunk_1", 1, "b", ArrayEmbedding(<<1, 1>>)) >>,
    << VectorChunk("d2", "d2_chunk_0", 0, "c", ArrayEmbedding(<<1, 1>>)),
       VectorChunk("d2", "d2_chunk_1", 1, "d", NullEmbedding) >>,
    << VectorChunk("d1", "d1_chunk_0", 0, "a2", ArrayEmbedding(<<1>>)) >> }

\* a chunk list with the three kinds of embedding the embedders produce: a vector,
\* null (the process route's marker of a failure) and [] (RAGSystem's marker)
MarkedBatch ==
  << VectorChunk("d1", "d1_chunk_0", 0, "a", ArrayEmbedding(<<1, 0>>)),
     VectorChunk("d1", "d1_chunk_1", 1, "b", NullEmbedding),
     VectorChunk("d1", "d1_chunk_2", 2, "c", ArrayEmbedding(<<>>)) >>

ChunkKey(d, i) == << "doc", d, "chunk", i >>

ChunksKey(d) == << "doc", d, "chunks" >>

ChunkRecordStampsMetadata(chunk, now) ==
  [id |-> chunk.id, documentId |-> chunk.documentId, content |-> chunk.content,
   embedding |-> chunk.embedding, metadata |-> [chunkIndex |-> now], timestamp |-> now]

ChunkRecord(chunk, now) ==
  [id |-> chunk.id, documentId |-> chunk.documentId, content |-> chunk.content,
   embedding |-> chunk.embedding, metadata |-> chunk.metadata, timestamp |-> now]

\* KEYS doc:*:chunk:* and KEYS doc:*:chunks, on keys split at ':'
MatchesChunkPattern(k) ==
  /\ Len(k) >= 4
  /\ k[1] = "doc"
  /\ \E i \in 3 .. (Len(k) - 1) : k[i] = "chunk"

MatchesChunksPattern(k) ==
  /\ Len(k) >= 3
  /\ k[1] = "doc"
  /\ k[Len(k)] = "chunks"

MatchDocIdFirstSegment(k) == k[1]

\* key.match(/doc:([^:]+):chunks/): the captured document id, "" when there is no match
MatchDocId(k) ==
  LET at == { i \in 1 .. (Len(k) - 2) : k[i] = "doc" /\ k[i + 1] # "" /\ k[i + 2] = "chunks" }
  IN IF at = {} THEN "" ELSE k[(CHOOSE i \in at : \A j \in at : i <= j) + 1]

RECURSIVE Dedupe(_)
Dedupe(s) ==
  IF s = <<>> THEN <<>>
  ELSE LET front == Dedupe(SubSeq(s, 1, Len(s) - 1))
       IN IF \E i \in 1 .. Len(front) : front[i] = s[Len(s)] THEN front
          ELSE Append(front, s[Len(s)])

\* listDocuments, lines 206-213: map, filter(Boolean), new Set
DocIdsOfKeys(keys) ==
  Dedupe(SelectSeq([i \in 1 .. Len(keys) |-> MatchDocId(keys[i])], LAMBDA d : d # ""))

Orders(S) ==
  { s \in [1 .. Cardinality(S) -> S] : \A i, j \in 1 .. Cardinality(S) : i # j => s[i] # s[j] }

Range(s) == { s[i] : i \in 1 .. Len(s) }

\* ---- searchSimilar, lines 154-166: what one record contributes to the results
Thresholds == { [num |-> 7, den2 |-> 100], [num |-> 0, den2 |-> 1] }

Limits == { 0, 1, 2 }

Queries == { <<1, 0>>, <<1, 1>> }

SearchResult(rec, score) ==
  [id |-> rec.id, documentId |-> rec.documentId, content |-> rec.content,
   score |-> score, metadata |-> rec.metadata]

Scorable(rec) == rec.embedding.json = "array"

ScoreOf(rec, q) == cosineSimilarity(q, rec.embedding.v)

ContributionIgnoresThreshold(rec, q, th) ==
  IF ~Scorable(rec) THEN <<>> ELSE << SearchResult(rec, ScoreOf(rec, q)) >>

Contribution(rec, q, th) ==
  IF ~Scorable(rec) THEN <<>>
  ELSE IF ScoreGeq(ScoreOf(rec, q), th) THEN << SearchResult(rec, ScoreOf(rec, q)) >>
  ELSE <<>>

SearchFinishUnsorted(results, limit) == Slice(results, limit)

\* line 174
SearchFinish(results, limit) == Slice(SortByScore(results), limit)

\* RAGSystem.getRedisClient: a stub whose keys() is always empty and whose
\* hgetall() is always {}
RagStubKeys == <<>>

\* RAGSystem.searchSimilarChunks, lines 223-254, over the stub client
ragSearchSimilarChunks(q, limit) ==
  LET similarChunks == SelectSeq(RagStubKeys, LAMBDA k : FALSE)
  IN Slice(SortByScore(similarChunks), limit)

\* ---- the state of one operation of a RedisVectorStore instance
Procs == { 1 }

IdleProc ==
  [op |-> "idle", pc |-> "idle", chunks |-> <<>>, i |-> 0, doc |-> "", query |-> <<>>,
   limit |-> 0, threshold |-> ZeroScore, keys |-> <<>>, results |-> <<>>, out |-> <<>>,
   outcome |-> "none", failures |-> 0]

EmptyMap == [k \in {} |-> 0]

MapPut(f, k, v) == [x \in DOMAIN f \cup { k } |-> IF x = k THEN v ELSE f[x]]

MapDel(f, k) == [x \in DOMAIN f \ { k } |-> f[x]]

\* a stored record without its timestamp
StoredContent(h) ==
  [k \in DOMAIN h |->
     [id |-> h[k].id, documentId |-> h[k].documentId, content |-> h[k].content,
      embedding |-> h[k].embedding, metadata |-> h[k].metadata]]

NoPrev == [kind |-> "none", chunks |-> <<>>, content |-> EmptyMap, sets |-> EmptyMap]

SeededHashes ==
  LET b == << VectorChunk("d1", "d1_chunk_0", 0, "a", ArrayEmbedding(<<1, 0>>)) >>
  IN MapPut(EmptyMap, ChunkKey("d1", "d1_chunk_0"), ChunkRecord(b[1], 0))

SeededSets == MapPut(EmptyMap, ChunksKey("d1"), { "d1_chunk_0" })

\* ===================================================== document ingestion: data
\* The chunkers and embedders of src/lib/rag-system.ts and
\* src/app/api/documents/process/route.ts, the query embedding of the search
\* routes and processDocument of src/unnamed/part_005.
\* ---- strings
MaxText == 5

IsTerminator(c) == c \in { ".", "!", "?" }

IsSpace(c) == c = " "

\* the maximal runs of characters of one class, as << first, last >>, in order
Runs(s, Is(_)) ==
  LET starts == { i \in 1 .. Len(s) : Is(s[i]) /\ (i = 1 \/ ~Is(s[i - 1])) }
      ends == { j \in 1 .. Len(s) : Is(s[j]) /\ (j = Len(s) \/ ~Is(s[j + 1])) }
      runs == { << i, CHOOSE j \in ends : j >= i /\ \A k \in ends : k >= i => j <= k >> :
                  i \in starts }
  IN [n \in 1 .. Cardinality(runs) |->
        CHOOSE r \in runs : Cardinality({ x \in runs : x[1] <= r[1] }) = n]

\* s.split(/[class]+/): the pieces between the runs, empty first and last pieces kept
SplitOn(s, Is(_)) ==
  LET r == Runs(s, Is)
      n == Len(r)
  IN [k \in 1 .. (n + 1) |->
        SubSeq(s, IF k = 1 THEN 1 ELSE r[k - 1][2] + 1,
                  IF k = n + 1 THEN Len(s) ELSE r[k][1] - 1)]

\* content.match(/[^.!?]+[.!?]+/g) || [content]: every run of terminators that
\* follows at least one other character closes a match; what follows the last
\* run is in no match
MatchSentences(s) ==
  LET r == Runs(s, IsTerminator)
      n == Len(r)
      off == IF n > 0 /\ r[1][1] = 1 THEN 1 ELSE 0
      matches == [j \in 1 .. (n - off) |->
                    SubSeq(s, IF j + off = 1 THEN 1 ELSE r[j + off - 1][2] + 1, r[j + off][2])]
  IN IF matches = <<>> THEN << s >> ELSE matches

RECURSIVE JoinSpace(_)
JoinSpace(words) ==
  IF words = <<>> THEN <<>>
  ELSE IF Len(words) = 1 THEN words[1]
  ELSE JoinSpace(SubSeq(words, 1, Len(words) - 1)) \o << " " >> \o words[Len(words)]

\* words.slice(-n) for n >= 0; slice(-0) is slice(0), the whole array
SliceLast(words, n) ==
  IF n = 0 \/ n >= Len(words) THEN words
  ELSE SubSeq(words, Len(words) - n + 1, Len(words))

Repeat(c, n) == [i \in 1 .. n |-> c]

\* ---- chunkDocument
ChunkIdOf(documentId, index) == << documentId, "_chunk_", index >>

ChunkerStart == [chunks |-> <<>>, currentChunk |-> <<>>, chunkIndex |-> 0, startChar |-> 0]

TerminatorRuns(s) == Len(Runs(s, IsTerminator))

RagChunk(st, documentId) ==
  [id |-> ChunkIdOf(documentId, st.chunkIndex),
   documentId |-> documentId,
   content |-> Trim(st.currentChunk),
   chunkIndex |-> st.chunkIndex,
   embedding |-> <<>>,
   metadata |-> [startChar |-> st.startChar,
                 endChar |-> st.startChar + Len(st.currentChunk),
                 wordCount |-> Len(SplitOn(st.currentChunk, IsSpace)),
                 sentenceCount |-> IF TerminatorRuns(st.currentChunk) = 0 THEN 1
                                   ELSE TerminatorRuns(st.currentChunk)]]

RagChunkStepCountsOnce(st, raw, documentId, chunkSize, chunkOverlap) ==
  LET sentence == Trim(raw)
      potentialChunk ==
        st.currentChunk \o (IF st.currentChunk # <<>> THEN << " " >> ELSE <<>>) \o sentence
      words == SplitOn(st.currentChunk, IsSpace)
      overlapWords == SliceLast(words, chunkOverlap \div 4)
      next == JoinSpace(overlapWords) \o << " " >> \o sentence
  IN IF sentence = <<>> THEN st
     ELSE IF Len(potentialChunk) > 4 * chunkSize /\ Len(st.currentChunk) > 0
       THEN [chunks |-> Append(st.chunks, RagChunk(st, documentId)),
             currentChunk |-> next,
             chunkIndex |-> st.chunkIndex,
             startChar |-> st.startChar + Len(next) - Len(JoinSpace(overlapWords))]
       ELSE [st EXCEPT !.currentChunk = potentialChunk]

\* RAGSystem.chunkDocument, lines 86-118: one turn of the loop
RagChunkStep(st, raw, documentId, chunkSize, chunkOverlap) ==
  LET sentence == Trim(raw)
      potentialChunk ==
        st.currentChunk \o (IF st.currentChunk # <<>> THEN << " " >> ELSE <<>>) \o sentence
      words == SplitOn(st.currentChunk, IsSpace)
      overlapWords == SliceLast(words, chunkOverlap \div 4)
      next == JoinSpace(overlapWords) \o << " " >> \o sentence
  IN IF sentence = <<>> THEN st
     ELSE IF Len(potentialChunk) > 4 * chunkSize /\ Len(st.currentChunk) > 0
       THEN [chunks |-> Append(st.chunks, RagChunk(st, documentId)),
             currentChunk |-> next,
             chunkIndex |-> st.chunkIndex + 1,
             startChar |-> st.startChar + Len(next) - Len(JoinSpace(overlapWords))]
       ELSE [st EXCEPT !.currentChunk = potentialChunk]

RECURSIVE RagChunkLoop(_, _, _, _, _)
RagChunkLoop(sentences, n, documentId, chunkSize, chunkOverlap) ==
  IF n = 0 THEN ChunkerStart
  ELSE RagChunkStep(RagChunkLoop(sentences, n - 1, documentId, chunkSize, chunkOverlap),
                    sentences[n], documentId, chunkSize, chunkOverlap)

\* RAGSystem.chunkDocument
ragChunkDocument(content, documentId, chunkSize, chunkOverlap) ==
  LET sentences == MatchSentences(content)
      st == RagChunkLoop(sentences, Len(sentences), documentId, chunkSize, chunkOverlap)
  IN IF Len(Trim(st.currentChunk)) > 0 THEN Append(st.chunks, RagChunk(st, documentId))
     ELSE st.chunks

\* chunkDocument of the document process route
maxChunkSize == 800

overlapSize == 100

RouteChunk(st, documentId) ==
  [id |-> ChunkIdOf(documentId, st.chunkIndex),
   documentId |-> documentId,
   content |-> Trim(st.currentChunk),
   chunkIndex |-> st.chunkIndex,
   metadata |-> [startChar |-> st.startChar,
                 endChar |-> st.startChar + Len(st.currentChunk),
                 wordCount |-> Len(SplitOn(st.currentChunk, IsSpace))]]

\* lines 160-187: one turn of the loop
RouteChunkStep(st, sentence, documentId) ==
  LET trimmedSentence == Trim(sentence)
      words == SplitOn(st.currentChunk, IsSpace)
      overlapWords == SliceLast(words, overlapSize \div 4)
      next == JoinSpace(overlapWords) \o << " " >> \o trimmedSentence
  IN IF trimmedSentence = <<>> THEN st
     ELSE IF Len(st.currentChunk \o trimmedSentence) > 4 * maxChunkSize
             /\ Len(st.currentChunk) > 0
       THEN [chunks |-> Append(st.chunks, RouteChunk(st, documentId)),
             currentChunk |-> next,
             chunkIndex |-> st.chunkIndex + 1,
             startChar |-> st.startChar + Len(next)
                             - (Len(JoinSpace(overlapWords)) + Len(trimmedSentence))]
       ELSE [st EXCEPT !.currentChunk =
               @ \o (IF @ # <<>> THEN << " " >> ELSE <<>>) \o trimmedSentence]

RECURSIVE RouteChunkLoop(_, _, _)
RouteChunkLoop(sentences, n, documentId) ==
  IF n = 0 THEN ChunkerStart
  ELSE RouteChunkStep(RouteChunkLoop(sentences, n - 1, documentId), sentences[n], documentId)

routeChunkDocument(content, documentId) ==
  LET sentences == SelectSeq(SplitOn(content, IsTerminator), LAMBDA x : Len(Trim(x)) > 0)
      st == RouteChunkLoop(sentences, Len(sentences), documentId)
  IN IF Len(Trim(st.currentChunk)) > 0 THEN Append(st.chunks, RouteChunk(st, documentId))
     ELSE st.chunks

\* ---- the texts, chunk sizes and overlaps given to the chunkers
Alphabet == { "a", " ", "." }

ShortTexts == UNION { [1 .. n -> Alphabet] : n \in 0 .. MaxText }

\* three sentences whose estimated tokens are below 2 but whose sentences, joined
\* again with spaces, are above it; and a text of two long words and a short one
\* that the route's chunker cuts twice
LongTexts ==
  { << "a", ".", "a", ".", "a", ".", "." >>,
    Repeat("a", 1700) \o << ".", " " >> \o Repeat("a", 1600) \o << ".", " ", "a", "." >> }

Texts == ShortTexts \cup LongTexts

ChunkSizes == { 1, 2 }

ChunkOverlaps == { 0, 4, 8 }

NoChunker ==
  [text |-> <<>>, chunkSize |-> 1, chunkOverlap |-> 0, done |-> FALSE,
   rag |-> <<>>, route |-> <<>>]

\* ---- generateEmbeddings: the chunks are known by their position 1..chunks
MaxChunks == 11

batchSize == 10

Embedded == ArrayEmbedding(<<1, 0>>)

\* the failure markers: [] in RAGSystem.generateEmbeddings, null in the route
EmptyEmbedding == ArrayEmbedding(<<>>)

IdleEmbedder ==
  [impl |-> "none", pc |-> "idle", chunks |-> 0, i |-> 0, out |-> <<>>, failed |-> {},
   hsets |-> <<>>, chunksCount |-> undefined]

EmbeddedChunk(k, e) == [chunk |-> k, embedding |-> e]

\* the replies of the embeddings endpoint to a request for n texts: 200 with n
\* embeddings or with fewer, an error status, or no reply at all
BatchReplies(n) ==
  { [kind |-> "ok", count |-> m] : m \in { 0, n - 1, n } \cap (0 .. n) }
    \cup { [kind |-> "http_error", count |-> 0], [kind |-> "network_error", count |-> 0] }

\* RAGSystem.generateEmbeddings, lines 147-181: what one batch appends. An ok reply
\* is read entry by entry (lines 166-171); a missing entry throws after the entries
\* before it were pushed, and the catch pushes the whole batch with []
RagBatchOutput(first, n, reply) ==
  LET pushed == IF reply.kind = "ok" THEN (IF reply.count < n THEN reply.count ELSE n) ELSE 0
      threw == reply.kind # "ok" \/ reply.count < n
  IN [j \in 1 .. pushed |-> EmbeddedChunk(first + j - 1, Embedded)]
       \o (IF threw THEN [j \in 1 .. n |-> EmbeddedChunk(first + j - 1, EmptyEmbedding)]
            ELSE <<>>)

\* RAGSystem.storeDocument, lines 202-215: the chunks a record is written for, in
\* the order of the HSET commands
storeDocumentHsets(chunks) == SelectSeq(chunks, LAMBDA c : Len(c.embedding.v) > 0)

\* generateEmbeddings of the process route, lines 210-241: one chunk
RouteChunkOutput(k, reply) ==
  IF reply.kind = "ok" /\ reply.count >= 1
    THEN << EmbeddedChunk(k, Embedded) >>
    ELSE << EmbeddedChunk(k, NullEmbedding) >>


\* ---- tracked documents: the list kept by the configuration panel and the
\* request each one has in flight at the process route
MaxDocs == 2

\* URLs as path segments
DocUrls ==
  { << "docs.google.com", "document", "d", "abc", "edit" >>,
    << "docs.google.com", "spreadsheets", "d", "abc" >>,
    << "docs.google.com", "document", "d" >> }

\* url.match(/\/document\/d\/([a-zA-Z0-9-_]+)/): the segment after /document/d/
extractGoogleDocId(url) ==
  LET at == { i \in 1 .. Len(url) - 2 : url[i] = "document" /\ url[i + 1] = "d" }
  IN IF at = {} THEN <<>> ELSE << url[(CHOOSE i \in at : \A j \in at : i <= j) + 2] >>

\* what fetchGoogleDocContent can return besides null: trimmed and never empty
DocTexts ==
  { << ".", ".", "." >>,
    << "a", "." >>,
    Repeat("a", 1700) \o << ".", " " >> \o Repeat("a", 1600) \o << ".", " ", "a", "." >> }

NoProcessResponse == [kind |-> "none"]

ProcessError(status, error) == [kind |-> "error", status |-> status, error |-> error]

ProcessSuccess(chunksCount, chunks) ==
  [kind |-> "success", chunksCount |-> chunksCount, chunks |-> chunks]

\* addDocument, lines 274-279, followed by the first statement of processDocument,
\* line 306, which runs before addDocument returns
NewDoc(id, url, openaiKey) ==
  [id |-> id, url |-> url, openaiKey |-> openaiKey,
   status |-> "extracting", statusMessage |-> "Extracting text from document...",
   chunkCount |-> undefined, history |-> << "pending", "extracting" >>,
   pc |-> "requested", fetched |-> "none", nchunks |-> 0, out |-> <<>>,
   response |-> NoProcessResponse]

\* updateDocStatus, lines 292-303
updateDocStatus(doc, status, message, chunkCount) ==
  [doc EXCEPT !.status = status, !.statusMessage = message, !.chunkCount = chunkCount,
              !.history = Append(@, status)]

\* processDocument, lines 320-328: what the client does with the route's result
ClientAfterResult(doc) ==
  IF doc.response.kind = "success"
    THEN updateDocStatus(doc, "ready", "Vectorized & stored chunks", doc.response.chunksCount)
    ELSE updateDocStatus(doc, "error", "Processing failed", undefined)

\* ---- the metrics of the chat page
MaxRecorded == 3

SeriesLength == 100

\* s.slice(-n) for n > 0
KeepLast(s, n) == IF Len(s) <= n THEN s ELSE SubSeq(s, Len(s) - n + 1, Len(s))

\* getDefaultMetrics; the costs and the rates, derived from the counters, are left out
getDefaultMetrics ==
  [totalRequests |-> 0, cacheHits |-> 0, cacheMisses |-> 0,
   totalTokensSaved |-> 0, totalTokensUsed |-> 0,
   langcacheLatencies |-> <<>>, openaiLatencies |-> <<>>]

NoMetrics == [data |-> getDefaultMetrics, langcacheTurns |-> <<>>, openaiTurns |-> <<>>]

\* the results of the chat route that a turn of the chat page can receive
ChatResults ==
  LET hit == [hit |-> TRUE, response |-> <<"R">>, similarity |-> 92, cachedQuery |-> <<"Q">>]
      oas == { callOpenAIResult([kind |-> "ok", text |-> <<"G">>, usage |-> 10], lat) :
                 lat \in Latencies }
  IN { HitResponse(hit, <<"Q">>, lat) : lat \in Latencies }
       \cup { FreshResponse(oa, <<"Q">>) : oa \in oas }
       \cup { ShadowResponse(cr, oa, <<"Q">>) : cr \in { hit, MissResult }, oa \in oas }
       \cup { ErrorResponse("http_error"), MissingFieldResponse }

\* sendMessage, lines 95-106: the argument given to updateMetrics
UpdateOf(result) ==
  [cached |-> result.cached,
   latency |-> result.latency,
   tokensSaved |-> IF "tokensSaved" \in DOMAIN result THEN result.tokensSaved ELSE undefined,
   tokensUsed |-> IF "tokensUsed" \in DOMAIN result THEN result.tokensUsed ELSE undefined,
   cacheHitDefined |-> "cacheHit" \in DOMAIN result,
   cacheHit |-> IF "cacheHit" \in DOMAIN result THEN result.cacheHit ELSE FALSE]

\* updateMetrics, line 112
actualCacheHit(update) == IF update.cacheHitDefined THEN update.cacheHit ELSE update.cached

\* updateMetrics, lines 127-147
updateMetrics(current, update) ==
  [totalRequests |-> current.totalRequests + 1,
   cacheHits |-> current.cacheHits + (IF actualCacheHit(update) THEN 1 ELSE 0),
   cacheMisses |-> current.cacheMisses + (IF actualCacheHit(update) THEN 0 ELSE 1),
   totalTokensSaved |-> current.totalTokensSaved + OrZero(update.tokensSaved),
   totalTokensUsed |-> current.totalTokensUsed + OrZero(update.tokensUsed),
   langcacheLatencies |->
     IF actualCacheHit(update)
       THEN KeepLast(Append(current.langcacheLatencies, update.latency), SeriesLength)
       ELSE current.langcacheLatencies,
   openaiLatencies |->
     IF ~actualCacheHit(update)
       THEN KeepLast(Append(current.openaiLatencies, update.latency), SeriesLength)
       ELSE current.openaiLatencies]

\* ---- the search routes: the query embedding and the response
EmbeddingReplyKinds == { "ok", "http_error", "network_error", "malformed" }

NoQuery ==
  [route |-> "none", pc |-> "idle", embedding |-> "none", response |-> [kind |-> "none"]]

QueryError(status) == [kind |-> "error", status |-> status]

QuerySuccess(results) == [kind |-> "success", results |-> results, count |-> Len(results)]

\* RAGSystem.generateQueryEmbedding: null unless the reply is ok and well formed
generateQueryEmbedding(kind, q) == IF kind = "ok" THEN q ELSE <<>>

\* the vector search route, lines 13-30 and 43-46: every failure of the embedding
\* request is thrown into the catch, which answers 500
VectorRouteAfterEmbedding(kind) ==
  IF kind = "ok" THEN [pc |-> "search", response |-> [kind |-> "none"]]
  ELSE [pc |-> "done", response |-> QueryError(500)]

\* the RAG search route, lines 21-28, with searchSimilarChunks lines 220-221
RagRouteAfterEmbedding(kind, q, limit) ==
  IF generateQueryEmbedding(kind, q) = <<>>
    THEN [pc |-> "done", response |-> QuerySuccess(<<>>)]
    ELSE [pc |-> "done", response |-> QuerySuccess(ragSearchSimilarChunks(q, limit))]

\* ------------------------------------------------------------------ state
VARIABLES
  turns,          \* number of chat requests received so far
  message,        \* body.message of the current request
  config,         \* body.config of the current request
  pc,             \* where the POST handler of the current request is suspended
  searchState,    \* searchLangCache promise: "none", "inflight", "done"
  genState,       \* callOpenAI promise: "none", "inflight", "done", "failed"
  searchInFlight, \* search requests sent to the cache service and not answered
  searchReply,    \* the cache service's reply to the search of this turn
  genReply,       \* the generation service's reply of this turn
  cacheResult,    \* value searchLangCache resolved to
  openaiResult,   \* value callOpenAI resolved to (or the error it threw)
  storeCalls,     \* arguments of the storeInLangCache calls of this turn
  response,       \* what POST returned for this turn
  log,            \* order of the effects of this turn
  storeInFlight,  \* store requests sent to the cache service and not answered
  cache,          \* entries held by the cache service
  genPrompt       \* content of the user message sent to the generation service

VARIABLES
  hashes,         \* Redis hashes: chunk key -> chunk record
  sets,           \* Redis sets: chunks key -> ids of the document's chunks
  ops,            \* number of vector store operations started (also the clock)
  proc,           \* the operation each RedisVectorStore instance is running
  prev            \* the store and arguments left by the storeChunks call just before

VARIABLES
  cosA,           \* arguments and results of the two cosineSimilarity functions
  cosB,
  cosOut

VARIABLES
  chunker,        \* a text, a RAGConfig and what the two chunkDocument functions return
  embedder,       \* one run of a generateEmbeddings function
  queryRoute,     \* one request to a search route, up to the query embedding
  documents,      \* the documents tracked by the settings page, with their requests
  metrics         \* the metrics kept in localStorage and the turns behind each sample

chatVars ==
  << turns, message, config, pc, searchState, genState, searchInFlight, searchReply,
     genReply, cacheResult, openaiResult, storeCalls, response, log, storeInFlight,
     cache, genPrompt >>

vecVars == << hashes, sets, ops, proc, prev >>

cosVars == << cosA, cosB, cosOut >>

ingestVars == << chunker, embedder, queryRoute, documents, metrics >>

vars == << chatVars, vecVars, cosVars, ingestVars >>

NoCosOut == [done |-> FALSE, store |-> ZeroScore, rag |-> ZeroScore]

ChatAtRest ==
  /\ turns = 0
  /\ message = <<>>
  /\ config = NoConfig
  /\ pc = "idle"
  /\ searchState = "none"
  /\ genState = "none"
  /\ searchInFlight = {}
  /\ searchReply = NoReply
  /\ genReply = [kind |-> "none", text |-> <<>>, usage |-> undefined]
  /\ cacheResult = MissResult
  /\ openaiResult = NoOpenAIResult
  /\ storeCalls = <<>>
  /\ response = NoResponse
  /\ log = <<>>
  /\ storeInFlight = {}
  /\ cache = SeedCache
  /\ genPrompt = <<>>

VecAtRest ==
  /\ ops = 0
  /\ proc = [p \in Procs |-> IdleProc]
  /\ prev = NoPrev

CosAtRest ==
  /\ cosA = <<>>
  /\ cosB = <<>>
  /\ cosOut = NoCosOut

IngestAtRest ==
  /\ chunker = NoChunker
  /\ embedder = IdleEmbedder
  /\ queryRoute = NoQuery
  /\ documents = <<>>
  /\ metrics = NoMetrics

\* the chat route runs next to a vector index that holds one chunk
Init ==
  /\ ChatAtRest
  /\ VecAtRest
  /\ CosAtRest
  /\ IngestAtRest
  /\ hashes = SeededHashes
  /\ sets = SeededSets

\* --------------------------------------------- segments of the POST handler
ValidRequestIgnoresConfig(m, c) == m # <<>>

ValidRequest(m, c) == m # <<>> /\ c.present

\* callOpenAI(message, config), lines 393 and 437, and line 355: the user message sent
\* to the generation service is the chat message itself, whatever config.ragEnabled is.
GenerationPrompt(m, c) == m

\* searchLangCache up to its first await: nothing is sent without a cache configuration.
SearchStart(m, c) ==
  IF searchLangCacheConfigured(c)
    THEN [searchState |-> "inflight", sent |-> { searchLangCacheRequest(m) }, log |-> << "search" >>]
    ELSE [searchState |-> "done", sent |-> {}, log |-> << "search", "search_done" >>]

ShadowDispatchSequential(m, c) ==
  LET s == SearchStart(m, c) IN
  [pc |-> "await_all", searchState |-> s.searchState, sent |-> s.sent,
   genState |-> "none", log |-> s.log]

\* Promise.all([searchLangCache(..), callOpenAI(..)]): both are called before the await.
ShadowDispatch(m, c) ==
  LET s == SearchStart(m, c) IN
  [pc |-> "await_all", searchState |-> s.searchState, sent |-> s.sent,
   genState |-> "inflight", log |-> s.log \o << "gen" >>]

NormalDispatchConcurrent(m, c) ==
  LET s == SearchStart(m, c) IN
  IF s.searchState = "inflight"
    THEN [pc |-> "await_search", searchState |-> "inflight", sent |-> s.sent,
          genState |-> "inflight", log |-> s.log \o << "gen" >>]
    ELSE [pc |-> "await_openai", searchState |-> "done", sent |-> {},
          genState |-> "inflight", log |-> s.log \o << "gen" >>]

\* await searchLangCache(..): without a configuration it resolves at once to a miss
\* and the handler goes on to callOpenAI.
NormalDispatch(m, c) ==
  LET s == SearchStart(m, c) IN
  IF s.searchState = "inflight"
    THEN [pc |-> "await_search", searchState |-> "inflight", sent |-> s.sent,
          genState |-> "none", log |-> s.log]
    ELSE [pc |-> "await_openai", searchState |-> "done", sent |-> {},
          genState |-> "inflight", log |-> s.log \o << "gen" >>]

Step(p, g, calls, r, l) ==
  [pc |-> p, genState |-> g, storeCalls |-> calls, response |-> r, log |-> l]

NormalAfterSearchAlwaysGenerates(cr, m, lat) ==
  Step("await_openai", "inflight", <<>>, NoResponse, << "search_done", "gen" >>)

\* normal mode, after the search resolved: serve the hit or call OpenAI.
NormalAfterSearch(cr, m, lat) ==
  IF cr.hit
    THEN Step("done", "none", <<>>, HitResponse(cr, m, lat), << "search_done", "respond" >>)
    ELSE Step("await_openai", "inflight", <<>>, NoResponse, << "search_done", "gen" >>)

StoreCall(m, oa) == << [query |-> m, response |-> oa.content] >>

NormalAfterOpenAIAwaitsStore(oa, m) ==
  IF oa.ok
    THEN Step("await_store", "done", StoreCall(m, oa), NoResponse, << "gen_done", "store" >>)
    ELSE Step("done", "failed", <<>>, ErrorResponse(oa.error), << "gen_failed", "respond" >>)

NormalAfterOpenAIStoresQueryTwice(oa, m) ==
  IF oa.ok
    THEN Step("done", "done", << [query |-> m, response |-> m] >>, FreshResponse(oa, m),
              << "gen_done", "store", "respond" >>)
    ELSE Step("done", "failed", <<>>, ErrorResponse(oa.error), << "gen_failed", "respond" >>)

NormalAfterOpenAIStoresOnFailure(oa, m) ==
  IF oa.ok
    THEN Step("done", "done", StoreCall(m, oa), FreshResponse(oa, m),
              << "gen_done", "store", "respond" >>)
    ELSE Step("done", "failed", StoreCall(m, oa), ErrorResponse(oa.error),
              << "gen_failed", "store", "respond" >>)

NormalAfterOpenAIRespondsFirst(oa, m) ==
  IF oa.ok
    THEN Step("done", "done", StoreCall(m, oa), FreshResponse(oa, m),
              << "gen_done", "respond", "store" >>)
    ELSE Step("done", "failed", <<>>, ErrorResponse(oa.error), << "gen_failed", "respond" >>)

\* normal mode, after callOpenAI settled: store without awaiting and answer, or the catch block.
NormalAfterOpenAI(oa, m) ==
  IF oa.ok
    THEN Step("done", "done", StoreCall(m, oa), FreshResponse(oa, m),
              << "gen_done", "store", "respond" >>)
    ELSE Step("done", "failed", <<>>, ErrorResponse(oa.error), << "gen_failed", "respond" >>)

ShadowStoreAlways(cr) == TRUE

ShadowStoreNeeded(cr) == ~cr.hit

\* shadow mode, after Promise.all resolved: store on a miss, answer with OpenAI's output.
ShadowAfterAll(cr, oa, m) ==
  IF ShadowStoreNeeded(cr)
    THEN Step("done", "done", StoreCall(m, oa), ShadowResponse(cr, oa, m), << "store", "respond" >>)
    ELSE Step("done", "done", <<>>, ShadowResponse(cr, oa, m), << "respond" >>)

\* shadow mode, callOpenAI rejected: Promise.all rejects at once, the catch block answers.
ShadowAfterFailure(oa) ==
  Step("done", "failed", <<>>, ErrorResponse(oa.error), << "respond" >>)

\* ------------------------------------------------------------------ inputs
SearchReplies ==
  { [kind |-> "ok", entry |-> [prompt |-> p, response |-> e.response, similarity |-> s]] :
      e \in cache, s \in Similarities, p \in { <<"Q">>, <<>> } }
    \cup { [kind |-> k, entry |-> NoEntry] : k \in SearchReplyKinds \ { "ok" } }

GenReplies ==
  { [kind |-> "ok", text |-> t, usage |-> u] : t \in GenTexts, u \in GenUsages }
    \cup { [kind |-> k, text |-> <<>>, usage |-> undefined] : k \in GenReplyKinds \ { "ok" } }

\* ----------------------------------------------------------------- actions
NewTurn(m, c) ==
  /\ pc \in { "idle", "done" }
  /\ turns < MaxTurns
  /\ turns' = turns + 1
  /\ message' = m
  /\ config' = c
  /\ searchReply' = NoReply
  /\ genReply' = [kind |-> "none", text |-> <<>>, usage |-> undefined]
  /\ cacheResult' = MissResult
  /\ openaiResult' = NoOpenAIResult
  /\ storeCalls' = <<>>
  /\ UNCHANGED << storeInFlight, cache, vecVars, cosVars, ingestVars >>

\* POST, lines 375-379: a request without message or config is answered 400.
ReceiveInvalid(m, c) ==
  /\ ~ValidRequest(m, c)
  /\ NewTurn(m, c)
  /\ pc' = "done"
  /\ searchState' = "none"
  /\ genState' = "none"
  /\ searchInFlight' = {}
  /\ response' = MissingFieldResponse
  /\ log' = << "respond" >>
  /\ genPrompt' = <<>>

Dispatch(m, c, d) ==
  /\ NewTurn(m, c)
  /\ pc' = d.pc
  /\ searchState' = d.searchState
  /\ genState' = d.genState
  /\ searchInFlight' = d.sent
  /\ response' = NoResponse
  /\ log' = d.log
  /\ genPrompt' = (IF d.genState = "inflight" THEN GenerationPrompt(m, c) ELSE <<>>)

\* POST, lines 389-394.
ReceiveShadow(m, c) ==
  /\ ValidRequest(m, c)
  /\ c.shadowMode
  /\ Dispatch(m, c, ShadowDispatch(m, c))

\* POST, lines 414-418 (and 437 when searchLangCache returns without a request).
ReceiveNormal(m, c) ==
  /\ ValidRequest(m, c)
  /\ ~c.shadowMode
  /\ Dispatch(m, c, NormalDispatch(m, c))

Apply(st, logged) ==
  /\ pc' = st.pc
  /\ genState' = st.genState
  /\ storeCalls' = st.storeCalls
  /\ response' = st.response
  /\ log' = log \o logged \o st.log
  /\ genPrompt' = (IF st.genState = "inflight" THEN GenerationPrompt(message, config) ELSE genPrompt)
  /\ storeInFlight' =
       storeInFlight \cup
         UNION { storeInLangCacheRequests(st.storeCalls[i].query, st.storeCalls[i].response, config) :
                   i \in 1 .. Len(st.storeCalls) }

\* the cache service answers the search of a normal-mode turn.
SearchReplyNormal(r, lat) ==
  /\ pc = "await_search"
  /\ searchState = "inflight"
  /\ searchState' = "done"
  /\ searchInFlight' = {}
  /\ searchReply' = r
  /\ cacheResult' = searchLangCacheResult(r, message)
  /\ Apply(NormalAfterSearch(cacheResult', message, lat), <<>>)
  /\ UNCHANGED << turns, message, config, genReply, openaiResult, cache, vecVars, cosVars, ingestVars >>

\* the cache service answers the search of a shadow-mode turn.
SearchReplyShadow(r) ==
  /\ pc = "await_all"
  /\ searchState = "inflight"
  /\ searchState' = "done"
  /\ searchInFlight' = {}
  /\ searchReply' = r
  /\ cacheResult' = searchLangCacheResult(r, message)
  /\ IF genState = "done"
       THEN Apply(ShadowAfterAll(cacheResult', openaiResult, message), << "search_done" >>)
       ELSE /\ log' = Append(log, "search_done")
            /\ UNCHANGED << pc, genState, storeCalls, response, storeInFlight, genPrompt >>
  /\ UNCHANGED << turns, message, config, genReply, openaiResult, cache, vecVars, cosVars, ingestVars >>

\* the search of a shadow-mode turn is answered after the turn ended in the catch block.
SearchReplyLate(r) ==
  /\ pc = "done"
  /\ searchState = "inflight"
  /\ searchState' = "done"
  /\ searchInFlight' = {}
  /\ searchReply' = r
  /\ cacheResult' = searchLangCacheResult(r, message)
  /\ log' = Append(log, "search_done")
  /\ UNCHANGED << turns, message, config, pc, genState, genReply, openaiResult,
                  storeCalls, response, storeInFlight, cache, genPrompt, vecVars, cosVars, ingestVars >>

\* the generation service answers a normal-mode turn.
GenReplyNormal(r, lat) ==
  /\ pc = "await_openai"
  /\ genState = "inflight"
  /\ genReply' = r
  /\ openaiResult' = callOpenAIResult(r, lat)
  /\ Apply(NormalAfterOpenAI(openaiResult', message), <<>>)
  /\ UNCHANGED << turns, message, config, searchState, searchInFlight, searchReply,
                  cacheResult, cache, vecVars, cosVars, ingestVars >>

\* the generation service answers a shadow-mode turn.
GenReplyShadow(r, lat) ==
  /\ pc = "await_all"
  /\ genState = "inflight"
  /\ genReply' = r
  /\ openaiResult' = callOpenAIResult(r, lat)
  /\ IF ~openaiResult'.ok
       THEN Apply(ShadowAfterFailure(openaiResult'), << "gen_failed" >>)
       ELSE IF searchState = "done"
         THEN Apply(ShadowAfterAll(cacheResult, openaiResult', message), << "gen_done" >>)
         ELSE /\ genState' = "done"
              /\ log' = Append(log, "gen_done")
              /\ UNCHANGED << pc, storeCalls, response, storeInFlight, genPrompt >>
  /\ UNCHANGED << turns, message, config, searchState, searchInFlight, searchReply,
                  cacheResult, cache, vecVars, cosVars, ingestVars >>

\* the cache service answers a store request; storeInLangCache's result is dropped.
StoreReply(req, kind) ==
  /\ req \in storeInFlight
  /\ storeInFlight' = storeInFlight \ { req }
  /\ cache' = IF kind = "ok" THEN cache \cup { req } ELSE cache
  /\ UNCHANGED << turns, message, config, pc, searchState, genState, searchInFlight,
                  searchReply, genReply, cacheResult, openaiResult, storeCalls,
                  response, log, genPrompt, vecVars, cosVars, ingestVars >>

Next ==
  \/ \E m \in Messages, c \in Configs : ReceiveInvalid(m, c)
  \/ \E m \in Messages, c \in Configs : ReceiveShadow(m, c)
  \/ \E m \in Messages, c \in Configs : ReceiveNormal(m, c)
  \/ \E r \in SearchReplies, lat \in Latencies : SearchReplyNormal(r, lat)
  \/ \E r \in SearchReplies : SearchReplyShadow(r)
  \/ \E r \in SearchReplies : SearchReplyLate(r)
  \/ \E r \in GenReplies, lat \in Latencies : GenReplyNormal(r, lat)
  \/ \E r \in GenReplies, lat \in Latencies : GenReplyShadow(r, lat)
  \/ \E req \in storeInFlight, kind \in StoreReplyKinds : StoreReply(req, kind)

Spec == Init /\ [][Next]_vars

\* ------------------------------------------------------------- properties
InNormalTurn == turns > 0 /\ ValidRequest(message, config) /\ ~config.shadowMode

InShadowTurn == turns > 0 /\ ValidRequest(message, config) /\ config.shadowMode

Answered == response.kind \in { "hit", "fresh", "shadow" }

\* C1: in normal mode, once the cache search of a turn returned a hit, the generation
\* service has not been called in that turn and the turn has returned cached = true,
\* the cached response of the matched entry as content and the hit's similarity.
C1_NormalHitServedFromCache ==
  (InNormalTurn /\ searchState = "done" /\ cacheResult.hit) =>
    /\ ~Has(log, "gen")
    /\ genState = "none"
    /\ response.kind = "hit"
    /\ response.cached = TRUE
    /\ response.content = cacheResult.response
    /\ response.content = searchReply.entry.response
    /\ response.similarity = cacheResult.similarity

C1_Witness ==
  /\ InNormalTurn
  /\ cacheResult.hit
  /\ searchReply.entry.similarity = 92
  /\ response.kind = "hit"
  /\ response.content = <<"R">>
  /\ response.similarity = 92

\* C2: in shadow mode, every turn that returned an answer has called the generation
\* service, and the answer is the generation output with cached = false, whatever
\* the cache search did (hit, miss or failure).
C2_ShadowReturnsGeneration ==
  (InShadowTurn /\ response.kind \notin { "none", "error" }) =>
    /\ response.kind = "shadow"
    /\ Has(log, "gen")
    /\ genState = "done"
    /\ genReply.kind = "ok"
    /\ response.content = openaiResult.content
    /\ response.cached = FALSE

C2_Witness ==
  /\ InShadowTurn
  /\ cacheResult.hit
  /\ cacheResult.response = <<"R">>
  /\ response.kind = "shadow"
  /\ response.content = <<"G">>

\* C3: in normal mode, when the cache search missed and the generation call succeeded,
\* the turn has returned cached = false with the generation output's content and
\* tokensUsed, and exactly one store call (query, generated text) has been issued.
C3_NormalMissGeneratesAndStores ==
  (InNormalTurn /\ searchState = "done" /\ ~cacheResult.hit /\ genState = "done") =>
    /\ response.kind = "fresh"
    /\ response.cached = FALSE
    /\ response.content = openaiResult.content
    /\ response.tokensUsed = openaiResult.tokensUsed
    /\ storeCalls = << [query |-> message, response |-> openaiResult.content] >>
    /\ Has(log, "store")

C3_Witness ==
  /\ InNormalTurn
  /\ message = <<"Q">>
  /\ searchReply.kind = "ok_empty"
  /\ response.kind = "fresh"
  /\ response.content = <<"G">>
  /\ response.tokensUsed = 42
  /\ storeCalls = << [query |-> <<"Q">>, response |-> <<"G">>] >>

\* C4: in shadow mode the reported tokensSaved is the real tokensUsed of the generation
\* call when cacheHit is true and 0 otherwise, and the reported tokensUsed is always the
\* full real usage.
C4_ShadowTokenAccounting ==
  (InShadowTurn /\ response.kind = "shadow") =>
    /\ response.cacheHit = cacheResult.hit
    /\ response.tokensUsed = openaiResult.tokensUsed
    /\ response.tokensUsed = OrZero(genReply.usage)
    /\ response.tokensSaved = (IF response.cacheHit THEN OrZero(genReply.usage) ELSE 0)

C4_Witness ==
  /\ InShadowTurn
  /\ response.kind = "shadow"
  /\ response.cacheHit
  /\ response.similarity = 95
  /\ response.tokensSaved = 10
  /\ response.tokensUsed = 10

\* C5 as stated: in every shadow turn the search and the generation call are both
\* issued before either of them completes.
C5_ShadowBothInFlightEveryTurn ==
  InShadowTurn => (Len(log) >= 2 /\ log[1] = "search" /\ log[2] = "gen")

\* C5 amended: in every shadow turn the generation call is issued in the step that
\* starts the search, never after a reply of the search; and when the cache is
\* configured, so that a search request is sent, both calls are issued before
\* either completes.
C5_ShadowDualDispatch ==
  InShadowTurn =>
    /\ genState # "none"
    /\ Has(log, "gen")
    /\ (searchReply.kind # "none" => IndexOf(log, "gen") < Len(log))
    /\ (searchLangCacheConfigured(config) =>
          (Len(log) >= 2 /\ log[1] = "search" /\ log[2] = "gen"))

C5_Witness ==
  /\ InShadowTurn
  /\ searchState = "inflight"
  /\ searchInFlight # {}
  /\ genState = "inflight"
  /\ response = NoResponse

\* C6: every failure of the cache search (non-success status, connectivity failure,
\* malformed reply) is a miss for the router, and no turn ends in an error because of
\* it: a valid turn returns an error only when the generation call failed.
C6_SearchFailureIsMiss ==
  /\ (searchReply.kind \in SearchFailureKinds => ~cacheResult.hit)
  /\ ((searchReply.kind \in SearchFailureKinds /\ genState = "done" /\ pc = "done") =>
        response.kind \in { "fresh", "shadow" })
  /\ ((turns > 0 /\ ValidRequest(message, config) /\ response.kind = "error") =>
        (genState = "failed" /\ genReply.kind \in GenReplyKinds \ { "ok" }))

C6_Witness ==
  /\ searchReply.kind = "http_error"
  /\ InShadowTurn
  /\ response.kind = "shadow"

\* C7: in both modes, when the generation call fails the turn has ended with an error
\* result that carries no content, and the generation service was called once.
C7_GenerationFailureIsError ==
  /\ Count(log, "gen") <= 1
  /\ (genReply.kind \in GenReplyKinds \ { "ok" } =>
        /\ pc = "done"
        /\ genState = "failed"
        /\ response.kind = "error"
        /\ response.status = 500
        /\ "content" \notin DOMAIN response
        /\ Count(log, "gen") = 1)

C7_Witness ==
  /\ InShadowTurn
  /\ genReply.kind = "http_error"
  /\ searchState = "inflight"
  /\ response.kind = "error"

\* C8: the response of a turn does not depend on the store: it is returned in the step
\* that issues the store call, and a reply of the cache service to a store request
\* (success or failure) changes neither the response nor the handler's position.
C8_StoreNeverBlocksResponse ==
  /\ [](storeCalls # <<>> => (Answered /\ pc = "done"))
  /\ [][(storeInFlight' # storeInFlight /\ storeInFlight' \subseteq storeInFlight) =>
          (response' = response /\ pc' = pc)]_vars

C8_Witness ==
  /\ response.kind = "fresh"
  /\ storeCalls # <<>>
  /\ storeInFlight # {}
  /\ pc = "done"

\* C9 as stated: in a turn that issues a store, the store call comes after the response.
C9_StoreAfterRespond ==
  (Has(log, "store") /\ Has(log, "respond")) => IndexOf(log, "respond") < IndexOf(log, "store")

\* C9 amended: in a turn that issues a store, the store call is issued in the same
\* handler step as the response and immediately before it.
C9_StoreIssuedJustBeforeRespond ==
  Has(log, "store") =>
    /\ Count(log, "store") = 1
    /\ Has(log, "respond")
    /\ IndexOf(log, "respond") = IndexOf(log, "store") + 1

C9_Witness ==
  /\ Has(log, "store")
  /\ response.kind = "shadow"
  /\ storeInFlight # {}

\* C10: in shadow mode a store of the generated output is issued exactly when the
\* search was a miss and the generation succeeded; after a hit nothing is stored.
C10_ShadowStoreIffMiss ==
  InShadowTurn =>
    /\ (storeCalls # <<>> <=>
          (pc = "done" /\ searchState = "done" /\ ~cacheResult.hit /\ genState = "done"))
    /\ (storeCalls # <<>> =>
          storeCalls = << [query |-> message, response |-> openaiResult.content] >>)

C10_Witness ==
  /\ InShadowTurn
  /\ searchReply.kind = "ok_empty"
  /\ response.kind = "shadow"
  /\ storeCalls = << [query |-> message, response |-> <<"G">>] >>

\* ================================================== vector store: operations
\* Every action is one Redis command of one operation, with its reply.
Running(p) == proc[p].pc \notin { "idle", "done" }

Returned(q, value) == [q EXCEPT !.pc = "done", !.outcome = "ok", !.out = value]

Raised(q) == [q EXCEPT !.pc = "done", !.outcome = "raised"]

\* a route handler creates a RedisVectorStore and calls one of its methods
Start(p, q) ==
  /\ ~Running(p)
  /\ ops < MaxOps
  /\ ops' = ops + 1
  /\ proc' = [proc EXCEPT ![p] = q]
  /\ prev' = IF proc[p].op = "store" /\ proc[p].outcome = "ok"
               THEN [kind |-> "store", chunks |-> proc[p].chunks,
                     content |-> StoredContent(hashes), sets |-> sets]
               ELSE NoPrev
  /\ UNCHANGED << hashes, sets, chatVars, cosVars, ingestVars >>

StartStore(p, chunks) ==
  Start(p, [IdleProc EXCEPT !.op = "store", !.pc = "connect", !.chunks = chunks])

StartSearch(p, q, limit, th) ==
  Start(p, [IdleProc EXCEPT !.op = "search", !.pc = "connect", !.query = q,
                            !.limit = limit, !.threshold = th])

StartDelete(p, d) ==
  Start(p, [IdleProc EXCEPT !.op = "delete", !.pc = "connect", !.doc = d])

StartList(p) ==
  Start(p, [IdleProc EXCEPT !.op = "list", !.pc = "connect"])

AfterConnect(q) ==
  CASE q.op = "store" ->
         IF q.chunks = <<>> THEN Returned(q, <<>>) ELSE [q EXCEPT !.pc = "hset", !.i = 1]
    [] q.op = "search" -> [q EXCEPT !.pc = "keys"]
    [] q.op = "delete" -> [q EXCEPT !.pc = "smembers"]
    [] q.op = "list" -> [q EXCEPT !.pc = "keys"]

\* a failed PING reaches the caller of every method: connect() is awaited outside
\* the try block (searchSimilar, listDocuments) or the catch rethrows
ConnectFailure(q) == Raised(q)

\* connect, lines 62-76: PING
Connect(p, ok) ==
  /\ proc[p].pc = "connect"
  /\ proc' = [proc EXCEPT ![p] = IF ok THEN AfterConnect(@)
                                  ELSE ConnectFailure([@ EXCEPT !.failures = @ + 1])]
  /\ UNCHANGED << hashes, sets, ops, prev, chatVars, cosVars, ingestVars >>

\* storeChunks, lines 114-129: HSET of the chunk's record
StoreHSET(p, ok) ==
  LET q == proc[p]
      chunk == q.chunks[q.i]
  IN /\ q.op = "store"
     /\ q.pc = "hset"
     /\ IF ok
          THEN /\ hashes' = MapPut(hashes, ChunkKey(chunk.documentId, chunk.id),
                                   ChunkRecord(chunk, ops))
               /\ proc' = [proc EXCEPT ![p].pc = "sadd"]
          ELSE /\ hashes' = hashes
               /\ proc' = [proc EXCEPT ![p] = Raised([@ EXCEPT !.failures = @ + 1])]
     /\ UNCHANGED << sets, ops, prev, chatVars, cosVars, ingestVars >>

SetAddDropsOtherSets(s, k, member) ==
  MapPut(EmptyMap, k, (IF k \in DOMAIN s THEN s[k] ELSE {}) \cup { member })

SetAdd(s, k, member) ==
  MapPut(s, k, (IF k \in DOMAIN s THEN s[k] ELSE {}) \cup { member })

\* storeChunks, line 132: SADD of the chunk id to the document's set
StoreSADD(p, ok) ==
  LET q == proc[p]
      chunk == q.chunks[q.i]
  IN /\ q.op = "store"
     /\ q.pc = "sadd"
     /\ IF ok
          THEN /\ sets' = SetAdd(sets, ChunksKey(chunk.documentId), chunk.id)
               /\ proc' = [proc EXCEPT ![p] =
                             IF q.i = Len(q.chunks) THEN Returned(@, <<>>)
                             ELSE [@ EXCEPT !.pc = "hset", !.i = @ + 1]]
          ELSE /\ sets' = sets
               /\ proc' = [proc EXCEPT ![p] = Raised([@ EXCEPT !.failures = @ + 1])]
     /\ UNCHANGED << hashes, ops, prev, chatVars, cosVars, ingestVars >>

AllKeys == DOMAIN hashes \cup DOMAIN sets

\* searchSimilar, line 148: KEYS doc:*:chunk:*; a failure ends in the outer catch
SearchKEYS(p, ok, order) ==
  LET q == proc[p] IN
  /\ q.op = "search"
  /\ q.pc = "keys"
  /\ order \in Orders({ k \in AllKeys : MatchesChunkPattern(k) })
  /\ proc' = [proc EXCEPT ![p] =
       IF ~ok THEN Returned([@ EXCEPT !.failures = @ + 1], <<>>)
       ELSE IF order = <<>> THEN Returned(@, SearchFinish(<<>>, q.limit))
       ELSE [@ EXCEPT !.pc = "hgetall", !.keys = order, !.i = 1]]
  /\ UNCHANGED << hashes, sets, ops, prev, chatVars, cosVars, ingestVars >>

\* searchSimilar, lines 151-174: HGETALL of the next key; a failure, a missing record
\* or an embedding that cannot be scored skips the key; after the last key the
\* results are sorted and cut
SearchHGETALL(p, ok) ==
  LET q == proc[p]
      key == q.keys[q.i]
      found == IF ok /\ key \in DOMAIN hashes
                 THEN Contribution(hashes[key], q.query, q.threshold)
                 ELSE <<>>
      results == q.results \o found
      counted == [q EXCEPT !.failures = IF ok THEN @ ELSE @ + 1, !.results = results]
  IN /\ q.op = "search"
     /\ q.pc = "hgetall"
     /\ proc' = [proc EXCEPT ![p] =
          IF q.i = Len(q.keys) THEN Returned(counted, SearchFinish(results, q.limit))
          ELSE [counted EXCEPT !.i = @ + 1]]
     /\ UNCHANGED << hashes, sets, ops, prev, chatVars, cosVars, ingestVars >>

Members(k) == IF k \in DOMAIN sets THEN sets[k] ELSE {}

\* deleteDocument, line 186: SMEMBERS of the document's set
DeleteSMEMBERS(p, ok, order) ==
  LET q == proc[p] IN
  /\ q.op = "delete"
  /\ q.pc = "smembers"
  /\ order \in Orders(Members(ChunksKey(q.doc)))
  /\ proc' = [proc EXCEPT ![p] =
       IF ~ok THEN Raised([@ EXCEPT !.failures = @ + 1])
       ELSE IF order = <<>> THEN [@ EXCEPT !.pc = "delset"]
       ELSE [@ EXCEPT !.pc = "del", !.keys = order, !.i = 1]]
  /\ UNCHANGED << hashes, sets, ops, prev, chatVars, cosVars, ingestVars >>

\* deleteDocument, lines 188-190: DEL of the next chunk record
DeleteDEL(p, ok) ==
  LET q == proc[p] IN
  /\ q.op = "delete"
  /\ q.pc = "del"
  /\ IF ok
       THEN /\ hashes' = MapDel(hashes, ChunkKey(q.doc, q.keys[q.i]))
            /\ proc' = [proc EXCEPT ![p] =
                 IF q.i = Len(q.keys) THEN [@ EXCEPT !.pc = "delset"]
                 ELSE [@ EXCEPT !.i = @ + 1]]
       ELSE /\ hashes' = hashes
            /\ proc' = [proc EXCEPT ![p] = Raised([@ EXCEPT !.failures = @ + 1])]
  /\ UNCHANGED << sets, ops, prev, chatVars, cosVars, ingestVars >>

\* deleteDocument, line 192: DEL of the document's set
DeleteSetDEL(p, ok) ==
  LET q == proc[p] IN
  /\ q.op = "delete"
  /\ q.pc = "delset"
  /\ IF ok
       THEN /\ sets' = MapDel(sets, ChunksKey(q.doc))
            /\ proc' = [proc EXCEPT ![p] = Returned(@, <<>>)]
       ELSE /\ sets' = sets
            /\ proc' = [proc EXCEPT ![p] = Raised([@ EXCEPT !.failures = @ + 1])]
  /\ UNCHANGED << hashes, ops, prev, chatVars, cosVars, ingestVars >>

\* listDocuments, lines 205-217: KEYS doc:*:chunks; a failure returns []
ListKEYS(p, ok, order) ==
  LET q == proc[p] IN
  /\ q.op = "list"
  /\ q.pc = "keys"
  /\ order \in Orders({ k \in AllKeys : MatchesChunksPattern(k) })
  /\ proc' = [proc EXCEPT ![p] =
       IF ok THEN Returned([@ EXCEPT !.keys = order], DocIdsOfKeys(order))
       ELSE Returned([@ EXCEPT !.failures = @ + 1], <<>>)]
  /\ UNCHANGED << hashes, sets, ops, prev, chatVars, cosVars, ingestVars >>

\* the Redis database is empty or holds one chunk of an earlier upload
VecInit ==
  /\ ChatAtRest
  /\ VecAtRest
  /\ CosAtRest
  /\ IngestAtRest
  /\ \E seeded \in BOOLEAN :
       /\ hashes = (IF seeded THEN SeededHashes ELSE EmptyMap)
       /\ sets = (IF seeded THEN SeededSets ELSE EmptyMap)

VecNext ==
  \/ \E p \in Procs, b \in Batches : StartStore(p, b)
  \/ \E p \in Procs, q \in Queries, l \in Limits, th \in Thresholds : StartSearch(p, q, l, th)
  \/ \E p \in Procs, d \in DocIds : StartDelete(p, d)
  \/ \E p \in Procs : StartList(p)
  \/ \E p \in Procs, ok \in BOOLEAN : Connect(p, ok)
  \/ \E p \in Procs, ok \in BOOLEAN : StoreHSET(p, ok)
  \/ \E p \in Procs, ok \in BOOLEAN : StoreSADD(p, ok)
  \/ \E p \in Procs, ok \in BOOLEAN :
       \E order \in Orders({ k \in AllKeys : MatchesChunkPattern(k) }) : SearchKEYS(p, ok, order)
  \/ \E p \in Procs, ok \in BOOLEAN : SearchHGETALL(p, ok)
  \/ \E p \in Procs, ok \in BOOLEAN :
       \E order \in Orders(Members(ChunksKey(proc[p].doc))) : DeleteSMEMBERS(p, ok, order)
  \/ \E p \in Procs, ok \in BOOLEAN : DeleteDEL(p, ok)
  \/ \E p \in Procs, ok \in BOOLEAN : DeleteSetDEL(p, ok)
  \/ \E p \in Procs, ok \in BOOLEAN :
       \E order \in Orders({ k \in AllKeys : MatchesChunksPattern(k) }) : ListKEYS(p, ok, order)

VecSpec == VecInit /\ [][VecNext]_vars

\* ======================================== the similarity functions on their own
CosInit ==
  /\ ChatAtRest
  /\ VecAtRest
  /\ IngestAtRest
  /\ hashes = EmptyMap
  /\ sets = EmptyMap
  /\ cosA \in Vectors
  /\ cosB \in Vectors
  /\ cosOut = NoCosOut

\* both functions are applied to the same pair of vectors
CosApply ==
  /\ ~cosOut.done
  /\ cosOut' = [done |-> TRUE, store |-> cosineSimilarity(cosA, cosB),
                rag |-> ragCosineSimilarity(cosA, cosB)]
  /\ UNCHANGED << cosA, cosB, chatVars, vecVars, ingestVars >>

CosNext == CosApply

CosSpec == CosInit /\ [][CosNext]_vars

\* =================================================================== claims C11-C20
\* what the vector search route would return for query vector q (limit 5,
\* threshold 0.7) on the current index
DefaultThreshold == [num |-> 7, den2 |-> 100]

IndexHits(q) ==
  { r \in UNION { Range(Contribution(hashes[k], q, DefaultThreshold)) :
                    k \in { x \in DOMAIN hashes : MatchesChunkPattern(x) } } : TRUE }

ContextOf(order) == [i \in 1 .. Len(order) |-> order[i].content]

\* C11: in normal mode on a cache miss, when ragEnabled is true and the vector index
\* returns at least one chunk at or above the threshold, the prompt sent to the
\* generation service is the query prepended with the retrieved context; when
\* ragEnabled is false or nothing is retrieved, the raw query is sent.
C11_PromptCarriesRetrievedContext ==
  \A q \in Queries :
    (InNormalTurn /\ Has(log, "gen")) =>
      IF config.ragEnabled /\ IndexHits(q) # {}
        THEN \E order \in Orders(IndexHits(q)) : genPrompt = ContextOf(order) \o message
        ELSE genPrompt = message

\* C12: searchSimilar never raises to its caller, whichever Redis command fails
\* (PING, KEYS, HGETALL): a failure yields an empty or reduced result set.
C12_SearchNeverRaises ==
  \A p \in Procs :
    (proc[p].op = "search" /\ proc[p].pc = "done") => proc[p].outcome = "ok"

NonIncreasing(s) ==
  \A i, j \in 1 .. Len(s) : i < j => ScoreGeq(s[i].score, s[j].score)

\* C13: for every store content, query vector, limit and threshold, the sequence
\* returned by searchSimilar (and by RAGSystem.searchSimilarChunks) is ordered by
\* non-increasing score and has length at most limit.
C13_SortedAndBounded ==
  /\ \A p \in Procs :
       (proc[p].op = "search" /\ proc[p].pc = "done" /\ proc[p].outcome = "ok") =>
         /\ NonIncreasing(proc[p].out)
         /\ Len(proc[p].out) <= proc[p].limit
  /\ \A q \in Queries, l \in Limits :
       /\ NonIncreasing(ragSearchSimilarChunks(q, l))
       /\ Len(ragSearchSimilarChunks(q, l)) <= l

\* a search that had to sort (the keys came in increasing score) and to cut
C13_Witness ==
  \E p \in Procs :
    /\ proc[p].op = "search"
    /\ proc[p].pc = "done"
    /\ proc[p].outcome = "ok"
    /\ Len(proc[p].results) = 2
    /\ ScoreGt(proc[p].results[2].score, proc[p].results[1].score)
    /\ Len(proc[p].out) = 1
    /\ proc[p].limit = 1

\* the stored chunks that score at or above the threshold, as search results
Qualifying(q, th) ==
  { SearchResult(hashes[k], ScoreOf(hashes[k], q)) :
      k \in { x \in DOMAIN hashes : /\ MatchesChunkPattern(x)
                                    /\ Scorable(hashes[x])
                                    /\ ScoreGeq(ScoreOf(hashes[x], q), th) } }

SearchDone(p) ==
  proc[p].op = "search" /\ proc[p].pc = "done" /\ proc[p].outcome = "ok"

\* C14: a search in which no Redis command failed returns exactly the top-limit
\* stored chunks among those with score >= threshold: every returned chunk is a
\* stored chunk with score >= threshold, none is returned twice, as many as the
\* limit allows are returned, and no qualifying chunk that is left out has a
\* strictly higher score than a returned one.
C14_TopLimitAboveThreshold ==
  \A p \in Procs :
    (SearchDone(p) /\ proc[p].failures = 0) =>
      LET out == proc[p].out
          qualifying == Qualifying(proc[p].query, proc[p].threshold)
      IN /\ \A i \in 1 .. Len(out) :
              /\ ScoreGeq(out[i].score, proc[p].threshold)
              /\ out[i] \in qualifying
         /\ \A i, j \in 1 .. Len(out) : i # j => out[i] # out[j]
         /\ Len(out) = IF proc[p].limit < Cardinality(qualifying)
                         THEN proc[p].limit ELSE Cardinality(qualifying)
         /\ \A r \in qualifying \ Range(out) :
              \A i \in 1 .. Len(out) : ~ScoreGt(r.score, out[i].score)

\* one chunk is returned and a qualifying chunk with a strictly lower score is
\* left out
C14_Witness ==
  \E p \in Procs :
    /\ SearchDone(p)
    /\ proc[p].failures = 0
    /\ proc[p].limit = 1
    /\ Len(proc[p].out) = 1
    /\ \E r \in Qualifying(proc[p].query, proc[p].threshold) :
         ScoreGt(proc[p].out[1].score, r.score)

\* C15: for all vectors a and b of different lengths, both similarity functions
\* return 0.
C15_LengthMismatchIsZero ==
  (cosOut.done /\ Len(cosA) # Len(cosB)) =>
    /\ cosOut.store = ZeroScore
    /\ cosOut.rag = ZeroScore

C15_Witness ==
  /\ cosOut.done
  /\ Len(cosA) = 2
  /\ Len(cosB) = 1
  /\ DotUpTo(cosA, cosA, 2) # 0
  /\ DotUpTo(cosB, cosB, 1) # 0
  /\ cosOut.store = ZeroScore
  /\ cosOut.rag = ZeroScore

\* C16: for all equal-length vectors a and b where at least one has zero norm
\* (including two empty vectors), both similarity functions return 0, not NaN.
C16_ZeroNormIsZero ==
  (/\ cosOut.done
   /\ Len(cosA) = Len(cosB)
   /\ (DotUpTo(cosA, cosA, Len(cosA)) = 0 \/ DotUpTo(cosB, cosB, Len(cosB)) = 0)) =>
    /\ cosOut.store = ZeroScore
    /\ cosOut.rag = ZeroScore

\* C17: storeChunks is idempotent on the stored content: a second successful call
\* with the same chunks, right after a successful first one, leaves the same chunk
\* records (timestamps aside) and the same per-document chunk-id sets.
C17_StoreTwiceSameContent ==
  \A p \in Procs :
    (/\ proc[p].op = "store"
     /\ proc[p].pc = "done"
     /\ proc[p].outcome = "ok"
     /\ prev.kind = "store"
     /\ prev.chunks = proc[p].chunks) =>
      /\ StoredContent(hashes) = prev.content
      /\ sets = prev.sets

\* two chunks were stored twice; the second call rewrote the records
C17_Witness ==
  \E p \in Procs :
    /\ proc[p].op = "store"
    /\ proc[p].pc = "done"
    /\ proc[p].outcome = "ok"
    /\ prev.kind = "store"
    /\ prev.chunks = proc[p].chunks
    /\ Len(proc[p].chunks) = 2
    /\ \A i \in 1 .. 2 :
         LET c == proc[p].chunks[i]
         IN /\ hashes[ChunkKey(c.documentId, c.id)].timestamp = 2
            /\ c.id \in sets[ChunksKey(c.documentId)]

RecordsOf(d) == { k \in DOMAIN hashes : hashes[k].documentId = d }

\* C18: after deleteDocument(D) completes without error and with no concurrent
\* operation, no chunk record of D and no chunk-id set of D remains.
C18_DeleteRemovesDocument ==
  \A p \in Procs :
    (proc[p].op = "delete" /\ proc[p].pc = "done" /\ proc[p].outcome = "ok") =>
      /\ RecordsOf(proc[p].doc) = {}
      /\ ChunksKey(proc[p].doc) \notin DOMAIN sets

\* C19: if deleteDocument(D) fails or is interrupted after any number of its
\* commands, every chunk record of D still present is a member of D's chunk-id set.
C19_NoOrphanAfterFailedDelete ==
  \A p \in Procs :
    (proc[p].op = "delete" /\ (Running(p) \/ proc[p].outcome = "raised")) =>
      \A k \in RecordsOf(proc[p].doc) : hashes[k].id \in Members(ChunksKey(proc[p].doc))

NoDuplicates(s) == \A i, j \in 1 .. Len(s) : i # j => s[i] # s[j]

\* C20: a listDocuments whose KEYS command succeeded returns, without duplicates,
\* exactly the document ids D for which a chunk-id set key of D exists in the
\* store; every document with a successfully stored chunk is listed.
C20_ListIsExactlyDocumentsWithSet ==
  \A p \in Procs :
    (/\ proc[p].op = "list"
     /\ proc[p].pc = "done"
     /\ proc[p].outcome = "ok"
     /\ proc[p].failures = 0) =>
      /\ NoDuplicates(proc[p].out)
      /\ Range(proc[p].out) = { d \in DocIds : ChunksKey(d) \in DOMAIN sets }
      /\ \A k \in DOMAIN hashes :
           hashes[k].id \in Members(ChunksKey(hashes[k].documentId)) =>
             hashes[k].documentId \in Range(proc[p].out)

\* both documents are listed
C20_Witness ==
  \E p \in Procs :
    /\ proc[p].op = "list"
    /\ proc[p].pc = "done"
    /\ proc[p].outcome = "ok"
    /\ proc[p].failures = 0
    /\ Range(proc[p].out) = DocIds
    /\ hashes # EmptyMap

\* ========================================================= the chunkers on their own
ChunkInit ==
  /\ ChatAtRest
  /\ VecAtRest
  /\ CosAtRest
  /\ hashes = EmptyMap
  /\ sets = EmptyMap
  /\ embedder = IdleEmbedder
  /\ queryRoute = NoQuery
  /\ documents = <<>>
  /\ metrics = NoMetrics
  /\ \E t \in Texts, size \in ChunkSizes, overlap \in ChunkOverlaps :
       chunker = [NoChunker EXCEPT !.text = t, !.chunkSize = size, !.chunkOverlap = overlap]

\* both chunkDocument functions are applied to the same text
ChunkApply ==
  /\ ~chunker.done
  /\ chunker' = [chunker EXCEPT
       !.done = TRUE,
       !.rag = ragChunkDocument(chunker.text, "d1", chunker.chunkSize, chunker.chunkOverlap),
       !.route = routeChunkDocument(chunker.text, "d1")]
  /\ UNCHANGED << embedder, queryRoute, documents, metrics, chatVars, vecVars, cosVars >>

ChunkNext == ChunkApply

ChunkSpec == ChunkInit /\ [][ChunkNext]_vars


\* ---------------------------------------------------------------- claims C22-C24
ChunkerOutputs == { chunker.rag, chunker.route }

\* C22: for every document text, chunk size and overlap, the chunks returned by a
\* chunker have indices exactly 0..n-1 in order, ids of the form
\* {documentId}_chunk_{index}, and startChar never decreases from a chunk to the next.
C22_IndicesIdsAndStartsInOrder ==
  chunker.done =>
    \A c \in ChunkerOutputs :
      /\ \A i \in 1 .. Len(c) :
           /\ c[i].chunkIndex = i - 1
           /\ c[i].documentId = "d1"
           /\ c[i].id = << "d1", "_chunk_", i - 1 >>
      /\ \A i \in 1 .. (Len(c) - 1) :
           c[i].metadata.startChar <= c[i + 1].metadata.startChar

\* both chunkers cut the text twice
C22_Witness ==
  /\ chunker.done
  /\ Len(chunker.rag) = 3
  /\ Len(chunker.route) = 3
  /\ chunker.route[3].metadata.startChar > chunker.route[1].metadata.startChar

IsWordChar(c) == ~IsTerminator(c) /\ ~IsSpace(c)

\* the sentences of a text: each stretch up to and including a run of terminators,
\* and the part after the last run, trimmed, when it holds a word
SentencesOf(s) ==
  LET r == Runs(s, IsTerminator)
      n == Len(r)
      pieces == [k \in 1 .. (n + 1) |->
                   Trim(SubSeq(s, IF k = 1 THEN 1 ELSE r[k - 1][2] + 1,
                                  IF k = n + 1 THEN Len(s) ELSE r[k][2]))]
  IN SelectSeq(pieces, LAMBDA x : \E i \in 1 .. Len(x) : IsWordChar(x[i]))

IsSubstring(x, y) ==
  \E k \in 0 .. (Len(y) - Len(x)) : SubSeq(y, k + 1, k + Len(x)) = x

\* C23: the chunks ordered by index hold every sentence of the text (a trailing
\* part without terminal punctuation included), in the original order: nothing is
\* dropped.
C23_EverySentenceInSomeChunk ==
  chunker.done =>
    \A c \in ChunkerOutputs :
      LET sentences == SentencesOf(chunker.text)
      IN \E f \in [1 .. Len(sentences) -> 1 .. Len(c)] :
           /\ \A j \in 1 .. Len(sentences) : IsSubstring(sentences[j], c[f[j]].content)
           /\ \A j \in 1 .. (Len(sentences) - 1) : f[j] <= f[j + 1]

\* C24: for every document text whose estimated token count (length / 4) is below
\* the chunk size, a chunker returns exactly one chunk.
C24_ShortTextIsOneChunk ==
  chunker.done =>
    /\ Len(chunker.text) < 4 * chunker.chunkSize => Len(chunker.rag) = 1
    /\ Len(chunker.text) < 4 * maxChunkSize => Len(chunker.route) = 1


\* ================================= concurrent ingestion of different documents
\* Two route handlers, each with its own RedisVectorStore, run storeChunks on the
\* same Redis database; their commands interleave one by one.
IngestProcs == { 1, 2 }

IngestDocOf(p) == IF p = 1 THEN "d1" ELSE "d2"

IngestBatches(p) == { b \in Batches : \A i \in 1 .. Len(b) : b[i].documentId = IngestDocOf(p) }

IngestInit ==
  /\ ChatAtRest
  /\ CosAtRest
  /\ IngestAtRest
  /\ ops = 0
  /\ prev = NoPrev
  /\ proc = [p \in IngestProcs |-> IdleProc]
  /\ \E seeded \in BOOLEAN :
       /\ hashes = (IF seeded THEN SeededHashes ELSE EmptyMap)
       /\ sets = (IF seeded THEN SeededSets ELSE EmptyMap)

IngestNext ==
  \/ \E p \in IngestProcs : \E b \in IngestBatches(p) : StartStore(p, b)
  \/ \E p \in IngestProcs, ok \in BOOLEAN : Connect(p, ok)
  \/ \E p \in IngestProcs, ok \in BOOLEAN : StoreHSET(p, ok)
  \/ \E p \in IngestProcs, ok \in BOOLEAN : StoreSADD(p, ok)

IngestSpec == IngestInit /\ [][IngestNext]_vars

\* C21: under any interleaving of storeChunks calls ingesting different documents,
\* each document's chunk-id set only grows, and the set of a call that completed
\* holds the id of every chunk the call stored, whatever the other call does.
C21_ChunkIdSetsOnlyGrow ==
  /\ [](\A p \in IngestProcs :
          (proc[p].op = "store" /\ proc[p].pc = "done" /\ proc[p].outcome = "ok") =>
            \A i \in 1 .. Len(proc[p].chunks) :
              proc[p].chunks[i].id \in Members(ChunksKey(proc[p].chunks[i].documentId)))
  /\ [][\A k \in DOMAIN sets : k \in DOMAIN sets' /\ sets[k] \subseteq sets'[k]]_vars

\* the two calls overlapped: the second call started between the two writes of the
\* first one, and both completed
C21_Witness ==
  /\ ops = 2
  /\ \A p \in IngestProcs :
       proc[p].op = "store" /\ proc[p].pc = "done" /\ proc[p].outcome = "ok"
  /\ ChunkKey("d1", "d1_chunk_1") \in DOMAIN hashes
  /\ hashes[ChunkKey("d1", "d1_chunk_0")].timestamp = 1
  /\ hashes[ChunkKey("d1", "d1_chunk_1")].timestamp = 2
  /\ sets[ChunksKey("d1")] = { "d1_chunk_0", "d1_chunk_1" }
  /\ sets[ChunksKey("d2")] = { "d2_chunk_0", "d2_chunk_1" }


\* ======================================================= the embedders on their own
EmbedInit ==
  /\ ChatAtRest
  /\ VecAtRest
  /\ CosAtRest
  /\ IngestAtRest
  /\ hashes = EmptyMap
  /\ sets = EmptyMap

\* generateEmbeddings(chunks) is called
EmbedStart(impl, n) ==
  /\ embedder.pc = "idle"
  /\ embedder' = [IdleEmbedder EXCEPT
       !.impl = impl, !.chunks = n, !.pc = IF n = 0 THEN "done" ELSE "batch"]
  /\ UNCHANGED << chunker, queryRoute, documents, metrics, chatVars, vecVars, cosVars >>

\* RAGSystem.generateEmbeddings: the reply to the request for the next batch
RagEmbedBatch(reply) ==
  LET first == embedder.i + 1
      n == IF embedder.chunks - embedder.i < batchSize
             THEN embedder.chunks - embedder.i ELSE batchSize
  IN /\ embedder.impl = "rag"
     /\ embedder.pc = "batch"
     /\ reply \in BatchReplies(n)
     /\ embedder' = [embedder EXCEPT
          !.out = @ \o RagBatchOutput(first, n, reply),
          !.failed = IF reply.kind = "ok" /\ reply.count >= n THEN @
                     ELSE @ \cup (first .. (first + n - 1)),
          !.i = @ + batchSize,
          !.pc = IF embedder.i + batchSize < embedder.chunks THEN "batch" ELSE "done"]
     /\ UNCHANGED << chunker, queryRoute, documents, metrics, chatVars, vecVars, cosVars >>

\* the route's generateEmbeddings: the reply to the request for the next chunk
RouteEmbedChunk(reply) ==
  /\ embedder.impl = "route"
  /\ embedder.pc = "batch"
  /\ reply \in BatchReplies(1)
  /\ embedder' = [embedder EXCEPT
       !.out = @ \o RouteChunkOutput(embedder.i + 1, reply),
       !.failed = IF reply.kind = "ok" /\ reply.count >= 1 THEN @
                  ELSE @ \cup { embedder.i + 1 },
       !.i = @ + 1,
       !.pc = IF embedder.i + 1 < embedder.chunks THEN "batch" ELSE "done"]
  /\ UNCHANGED << chunker, queryRoute, documents, metrics, chatVars, vecVars, cosVars >>

\* the RAG process route, lines 67-91 of the file of the RAG routes: the document is
\* stored and the response reports chunksWithEmbeddings.length
RagStoreAndRespond ==
  /\ embedder.impl = "rag"
  /\ embedder.pc = "done"
  /\ embedder' = [embedder EXCEPT
       !.pc = "processed",
       !.hsets = storeDocumentHsets(embedder.out),
       !.chunksCount = Len(embedder.out)]
  /\ UNCHANGED << chunker, queryRoute, documents, metrics, chatVars, vecVars, cosVars >>

EmbedNext ==
  \/ \E impl \in { "rag", "route" }, n \in 0 .. MaxChunks : EmbedStart(impl, n)
  \/ \E n \in 1 .. batchSize : \E reply \in BatchReplies(n) : RagEmbedBatch(reply)
  \/ \E reply \in BatchReplies(1) : RouteEmbedChunk(reply)
  \/ RagStoreAndRespond

EmbedSpec == EmbedInit /\ [][EmbedNext]_vars

\* C25: whatever each batch call returns or however it fails, the embedder's output
\* has the same length and order as its input: each input text yields exactly one
\* entry, a vector when its batch succeeded and a failure marker when it failed, and
\* the batches after a failed one are still attempted.
C25_OneEntryPerTextInOrder ==
  embedder.pc = "done" =>
    /\ Len(embedder.out) = embedder.chunks
    /\ \A k \in 1 .. Len(embedder.out) :
         /\ embedder.out[k].chunk = k
         /\ embedder.out[k].embedding = Embedded <=> k \notin embedder.failed


\* ================================================================ the search routes
QueryInit ==
  /\ ChatAtRest
  /\ VecAtRest
  /\ CosAtRest
  /\ IngestAtRest
  /\ \E seeded \in BOOLEAN :
       /\ hashes = (IF seeded THEN SeededHashes ELSE EmptyMap)
       /\ sets = (IF seeded THEN SeededSets ELSE EmptyMap)

\* a request arrives at the vector search route or at the RAG search route; a
\* request without its required parameters is answered 400
QueryStart(route, valid) ==
  /\ queryRoute.pc = "idle"
  /\ queryRoute' = [NoQuery EXCEPT
       !.route = route,
       !.pc = IF valid THEN "embedding" ELSE "done",
       !.response = IF valid THEN @ ELSE QueryError(400)]
  /\ UNCHANGED << chunker, embedder, documents, metrics, chatVars, vecVars, cosVars >>

\* the embeddings endpoint answers the request for the query's embedding
QueryEmbeddingReply(kind, q, limit) ==
  LET after == IF queryRoute.route = "vector" THEN VectorRouteAfterEmbedding(kind)
               ELSE RagRouteAfterEmbedding(kind, q, limit)
  IN /\ queryRoute.pc = "embedding"
     /\ queryRoute' = [queryRoute EXCEPT
          !.embedding = kind, !.pc = after.pc, !.response = after.response]
     /\ UNCHANGED << chunker, embedder, documents, metrics, chatVars, vecVars, cosVars >>

\* the vector search route, lines 33-34: searchSimilar is called
QuerySearchStart(q, limit, th) ==
  /\ queryRoute.pc = "search"
  /\ proc[1].pc = "idle"
  /\ StartSearch(1, q, limit, th)

\* lines 35-46: the response once searchSimilar has returned or raised
QuerySearchEnd ==
  /\ queryRoute.pc = "search"
  /\ proc[1].pc = "done"
  /\ queryRoute' = [queryRoute EXCEPT
       !.pc = "done",
       !.response = IF proc[1].outcome = "ok" THEN QuerySuccess(proc[1].out)
                    ELSE QueryError(500)]
  /\ UNCHANGED << chunker, embedder, documents, metrics, chatVars, vecVars, cosVars >>

QueryNext ==
  \/ \E route \in { "vector", "rag" }, valid \in BOOLEAN : QueryStart(route, valid)
  \/ \E kind \in EmbeddingReplyKinds, q \in Queries, limit \in Limits :
       QueryEmbeddingReply(kind, q, limit)
  \/ \E q \in Queries, limit \in Limits, th \in Thresholds : QuerySearchStart(q, limit, th)
  \/ \E ok \in BOOLEAN : Connect(1, ok)
  \/ \E ok \in BOOLEAN :
       \E order \in Orders({ k \in AllKeys : MatchesChunkPattern(k) }) : SearchKEYS(1, ok, order)
  \/ \E ok \in BOOLEAN : SearchHGETALL(1, ok)
  \/ QuerySearchEnd

QuerySpec == QueryInit /\ [][QueryNext]_vars

\* C26: a failure to embed the runtime query is never fatal to a search request:
\* the search returns an empty result rather than an error.
C26_QueryEmbeddingFailureIsEmptyResult ==
  (queryRoute.pc = "done" /\ queryRoute.embedding \in EmbeddingReplyKinds \ { "ok" }) =>
    /\ queryRoute.response.kind = "success"
    /\ queryRoute.response.results = <<>>


\* ================================================================ tracked documents
DocInit ==
  /\ ChatAtRest
  /\ VecAtRest
  /\ CosAtRest
  /\ chunker = NoChunker
  /\ embedder = IdleEmbedder
  /\ queryRoute = NoQuery
  /\ documents = <<>>
  /\ metrics = NoMetrics
  /\ hashes = EmptyMap
  /\ sets = EmptyMap

TrackedIds == { documents[i].id : i \in 1 .. Len(documents) }

\* replaces the document with this id, as the map of updateDocStatus does
WithDoc(id, doc) ==
  [i \in 1 .. Len(documents) |-> IF documents[i].id = id THEN doc ELSE documents[i]]

DocLeavesOthers == UNCHANGED << chunker, embedder, queryRoute, metrics, chatVars, vecVars, cosVars >>

\* addDocument: the new document is appended as pending and processDocument sets
\* it to extracting and sends the request
AddDocument(id, url, openaiKey) ==
  /\ Len(documents) < MaxDocs
  /\ id \notin TrackedIds
  /\ documents' = Append(documents, NewDoc(id, url, openaiKey))
  /\ DocLeavesOthers

\* the process route, lines 25-42: the parameters and the document id of the URL
RouteReceive(i) ==
  LET doc == documents[i]
  IN /\ doc.pc = "requested"
     /\ documents' = WithDoc(doc.id,
          IF ~doc.openaiKey
            THEN [doc EXCEPT !.pc = "responded",
                             !.response = ProcessError(400, "Missing required parameters")]
          ELSE IF extractGoogleDocId(doc.url) = <<>>
            THEN [doc EXCEPT !.pc = "responded",
                             !.response = ProcessError(400, "Invalid Google Docs URL")]
          ELSE [doc EXCEPT !.pc = "fetching"])
     /\ DocLeavesOthers

\* lines 46-54: fetchGoogleDocContent returned null
RouteFetchFailed(i) ==
  LET doc == documents[i]
  IN /\ doc.pc = "fetching"
     /\ documents' = WithDoc(doc.id,
          [doc EXCEPT !.fetched = "failed", !.pc = "responded",
                      !.response = ProcessError(400, "Failed to fetch document content")])
     /\ DocLeavesOthers

\* lines 46-63: the text is fetched and chunked; with no chunk the loop of
\* generateEmbeddings does not run and the route answers at once
RouteFetched(i, content) ==
  LET doc == documents[i]
      n == Len(routeChunkDocument(content, doc.id))
  IN /\ doc.pc = "fetching"
     /\ documents' = WithDoc(doc.id,
          IF n = 0
            THEN [doc EXCEPT !.fetched = "ok", !.nchunks = 0, !.pc = "responded",
                             !.response = ProcessSuccess(0, <<>>)]
            ELSE [doc EXCEPT !.fetched = "ok", !.nchunks = n, !.pc = "embedding"])
     /\ DocLeavesOthers

\* generateEmbeddings of the route, one chunk; after the last one the route answers
\* with every chunk, lines 58-63
RouteEmbed(i, reply) ==
  LET doc == documents[i]
      out == doc.out \o RouteChunkOutput(Len(doc.out) + 1, reply)
  IN /\ doc.pc = "embedding"
     /\ documents' = WithDoc(doc.id,
          IF Len(out) < doc.nchunks
            THEN [doc EXCEPT !.out = out]
            ELSE [doc EXCEPT !.out = out, !.pc = "responded",
                             !.response = ProcessSuccess(doc.nchunks, out)])
     /\ DocLeavesOthers

\* processDocument, lines 319-328: the result arrives
ClientResult(i) ==
  LET doc == documents[i]
  IN /\ doc.pc = "responded"
     /\ documents' = WithDoc(doc.id, [ClientAfterResult(doc) EXCEPT !.pc = "done"])
     /\ DocLeavesOthers

\* processDocument, lines 329-332: the request or the reading of its body fails
ClientNetworkError(i) ==
  LET doc == documents[i]
  IN /\ doc.pc \in { "requested", "fetching", "embedding", "responded" }
     /\ documents' = WithDoc(doc.id,
          [updateDocStatus(doc, "error", "Network error", undefined) EXCEPT !.pc = "done"])
     /\ DocLeavesOthers

\* removeDocument, lines 335-340
removeDocument(id) ==
  /\ id \in TrackedIds
  /\ documents' = SelectSeq(documents, LAMBDA doc : doc.id # id)
  /\ DocLeavesOthers

DocNext ==
  \/ \E id \in DocIds, url \in DocUrls, openaiKey \in BOOLEAN : AddDocument(id, url, openaiKey)
  \/ \E i \in 1 .. Len(documents) : RouteReceive(i)
  \/ \E i \in 1 .. Len(documents) : RouteFetchFailed(i)
  \/ \E i \in 1 .. Len(documents), content \in DocTexts : RouteFetched(i, content)
  \/ \E i \in 1 .. Len(documents), reply \in BatchReplies(1) : RouteEmbed(i, reply)
  \/ \E i \in 1 .. Len(documents) : ClientResult(i)
  \/ \E i \in 1 .. Len(documents) : ClientNetworkError(i)
  \/ \E id \in DocIds : removeDocument(id)

DocSpec == DocInit /\ [][DocNext]_vars

\* the sequence of the document state machine; the code names the fourth state
\* "vectorizing"
StatusSequence == << "pending", "extracting", "chunking", "embedding", "storing", "ready" >>

StatusRank(status) ==
  IF status = "vectorizing" THEN 4
  ELSE IF \E k \in 1 .. Len(StatusSequence) : StatusSequence[k] = status
    THEN CHOOSE k \in 1 .. Len(StatusSequence) : StatusSequence[k] = status
  ELSE 0

\* C27: every status transition of a tracked document goes from one state to the
\* next state of pending, extracting, chunking, embedding, storing, ready, or into
\* error; none skips a state or goes backward, none leaves ready or error.
C27_StatusTransitionsFollowSequence ==
  \A i \in 1 .. Len(documents) :
    \A k \in 1 .. Len(documents[i].history) - 1 :
      LET from == documents[i].history[k]
          to == documents[i].history[k + 1]
      IN /\ from \notin { "ready", "error" }
         /\ to = "error" \/ StatusRank(to) = StatusRank(from) + 1

\* C28: a document is ready only if every one of its chunks received an embedding
\* and was stored in the vector index.
C28_ReadyOnlyIfEveryChunkEmbeddedAndStored ==
  \A i \in 1 .. Len(documents) :
    documents[i].status = "ready" =>
      \A k \in 1 .. documents[i].nchunks :
        /\ documents[i].out[k].embedding = Embedded
        /\ ChunkKey(documents[i].id, k - 1) \in DOMAIN hashes

\* C29: when fetching the document fails, or chunking the fetched text gives zero
\* chunks, the status becomes error with a reason and never becomes ready.
C29_FetchFailureOrZeroChunksIsError ==
  \A i \in 1 .. Len(documents) :
    (documents[i].fetched = "failed" \/ (documents[i].fetched = "ok" /\ documents[i].nchunks = 0)) =>
      /\ documents[i].status # "ready"
      /\ documents[i].pc = "done" =>
           (documents[i].status = "error" /\ documents[i].statusMessage # "")


\* ================================================================ claim C30
\* C30: a chat request that lacks a required field (message or config) returns an
\* explicit error result and issues no cache search, no generation call and no
\* cache store.
C30_MissingFieldIsErrorWithoutCalls ==
  (turns > 0 /\ (message = <<>> \/ ~config.present)) =>
    /\ response.kind = "error"
    /\ response.status = 400
    /\ pc = "done"
    /\ ~Has(log, "search") /\ ~Has(log, "gen") /\ ~Has(log, "store")
    /\ searchInFlight = {}
    /\ searchState = "none"
    /\ genState = "none"
    /\ storeCalls = <<>>

C30_Witness ==
  /\ turns > 0
  /\ message # <<>>
  /\ ~config.present
  /\ response = MissingFieldResponse


\* ---------------------------------------------------------------- claims C31-C32
WordsOf(s) == SelectSeq(SplitOn(s, IsSpace), LAMBDA w : w # <<>>)

\* the trailing k words of a chunk: all of them if it has fewer, none when k = 0
TrailingWords(words, k) ==
  IF k = 0 THEN <<>>
  ELSE IF k >= Len(words) THEN words
  ELSE SubSeq(words, Len(words) - k + 1, Len(words))

RagSentences == MatchSentences(chunker.text)

RouteSentences ==
  SelectSeq(SplitOn(chunker.text, IsTerminator), LAMBDA x : Len(Trim(x)) > 0)

RagBefore(n) ==
  RagChunkLoop(RagSentences, n - 1, "d1", chunker.chunkSize, chunker.chunkOverlap)

RagAfter(n) ==
  RagChunkLoop(RagSentences, n, "d1", chunker.chunkSize, chunker.chunkOverlap)

RouteBefore(n) == RouteChunkLoop(RouteSentences, n - 1, "d1")

RouteAfter(n) == RouteChunkLoop(RouteSentences, n, "d1")

\* C31: when a chunker closes a chunk, the next buffer consists of exactly the
\* trailing floor(overlapTokens / 4) words of the closed chunk (all of its words if
\* it has fewer, no words when overlapTokens < 4) followed by the sentence that
\* triggered the overflow.
C31_NextBufferIsOverlapThenSentence ==
  chunker.done =>
    /\ \A n \in 1 .. Len(RagSentences) :
         Len(RagAfter(n).chunks) > Len(RagBefore(n).chunks) =>
           WordsOf(RagAfter(n).currentChunk) =
             TrailingWords(WordsOf(RagBefore(n).currentChunk), chunker.chunkOverlap \div 4)
               \o WordsOf(RagSentences[n])
    /\ \A n \in 1 .. Len(RouteSentences) :
         Len(RouteAfter(n).chunks) > Len(RouteBefore(n).chunks) =>
           WordsOf(RouteAfter(n).currentChunk) =
             TrailingWords(WordsOf(RouteBefore(n).currentChunk), overlapSize \div 4)
               \o WordsOf(RouteSentences[n])

\* C32: for every chunk produced from a document text, startChar and endChar are
\* character offsets into that text: 0 <= startChar <= endChar <= length of the text.
C32_OffsetsWithinText ==
  chunker.done =>
    \A c \in ChunkerOutputs :
      \A i \in 1 .. Len(c) :
        /\ 0 <= c[i].metadata.startChar
        /\ c[i].metadata.startChar <= c[i].metadata.endChar
        /\ c[i].metadata.endChar <= Len(chunker.text)


\* ---------------------------------------------------------------- claim C33
\* C33: when a document is reported as processed, the reported chunk count equals
\* the number of chunk records stored for that document in the store.
C33_ReportedCountIsStoredCount ==
  embedder.pc = "processed" => embedder.chunksCount = Len(embedder.hsets)


\* ---------------------------------------------------------------- claims C34-C36
\* C34: every chat turn, in either mode, issues at most one cache search, at most
\* one generation call and at most one cache store; in normal mode the generation
\* call is never issued before the cache search of the same turn has completed.
C34_AtMostOneCallEachAndSearchBeforeGeneration ==
  turns > 0 =>
    /\ Count(log, "search") <= 1
    /\ Count(log, "gen") <= 1
    /\ Count(log, "store") <= 1
    /\ Cardinality(searchInFlight) <= 1
    /\ Len(storeCalls) <= 1
    /\ (InNormalTurn /\ Has(log, "gen")) =>
         /\ Has(log, "search_done")
         /\ IndexOf(log, "search_done") < IndexOf(log, "gen")
         /\ searchState = "done"

C34_Witness ==
  /\ InNormalTurn
  /\ config.cacheConfigured
  /\ log = << "search", "search_done", "gen", "gen_done", "store", "respond" >>


Stored == storeCalls # <<>> \/ Has(log, "store")

\* C35: a cache store is issued only in a turn whose generation call returned
\* successfully: a normal-mode cache hit and a failed generation call (in either
\* mode) never write to the cache.
C35_StoreOnlyAfterSuccessfulGeneration ==
  turns > 0 =>
    /\ Stored => (genState = "done" /\ genReply.kind = "ok" /\ openaiResult.ok)
    /\ (InNormalTurn /\ searchState = "done" /\ cacheResult.hit) => ~Stored
    /\ genState = "failed" => ~Stored
    /\ genReply.kind \in GenReplyKinds \ { "ok" } => ~Stored

C35_Witness ==
  /\ InNormalTurn
  /\ config.cacheConfigured
  /\ genReply.kind = "http_error"
  /\ genState = "failed"
  /\ response.kind = "error"
  /\ ~Stored

\* C36: every response stored into the semantic cache is text produced by the
\* generation service for that turn's query; a generation reply with no text never
\* causes a substitute placeholder answer to be cached and later served as a hit.
C36_OnlyGeneratedTextIsCached ==
  turns > 0 =>
    /\ \A i \in 1 .. Len(storeCalls) :
         /\ storeCalls[i].query = message
         /\ genReply.text # <<>>
         /\ storeCalls[i].response = genReply.text
    /\ \A e \in storeInFlight \cup cache : e.response # Placeholder
    /\ response.kind = "hit" => response.content # Placeholder


\* ---------------------------------------------------------------- claim C37
\* the records written by the call in progress or just ended: HSET stamps them
\* with the number of the call
WrittenBy(p) == { k \in DOMAIN hashes : hashes[k].timestamp = ops }

\* C37: after storeChunks returns or raises, every chunk record it wrote is a
\* member of its document's chunk-id set.
C37_WrittenRecordsAreInTheirSet ==
  \A p \in Procs :
    (proc[p].op = "store" /\ proc[p].pc = "done") =>
      \A k \in WrittenBy(p) : hashes[k].id \in Members(ChunksKey(hashes[k].documentId))

\* ================================================================ deleteDocument
\* next to storeChunks: call 1 stores chunks of d1 while call 2 deletes d1
RaceInit ==
  /\ ChatAtRest
  /\ CosAtRest
  /\ IngestAtRest
  /\ ops = 0
  /\ prev = NoPrev
  /\ proc = [p \in IngestProcs |-> IdleProc]
  /\ \E seeded \in BOOLEAN :
       /\ hashes = (IF seeded THEN SeededHashes ELSE EmptyMap)
       /\ sets = (IF seeded THEN SeededSets ELSE EmptyMap)

RaceNext ==
  \/ \E b \in IngestBatches(1) : StartStore(1, b)
  \/ StartDelete(2, "d1")
  \/ \E p \in IngestProcs, ok \in BOOLEAN : Connect(p, ok)
  \/ \E ok \in BOOLEAN : StoreHSET(1, ok)
  \/ \E ok \in BOOLEAN : StoreSADD(1, ok)
  \/ \E ok \in BOOLEAN : \E order \in Orders(Members(ChunksKey("d1"))) :
       DeleteSMEMBERS(2, ok, order)
  \/ \E ok \in BOOLEAN : DeleteDEL(2, ok)
  \/ \E ok \in BOOLEAN : DeleteSetDEL(2, ok)

RaceSpec == RaceInit /\ [][RaceNext]_vars

\* C38: under any interleaving of deleteDocument(D) with a storeChunks call adding
\* chunks of D, once both have completed every remaining chunk record of D is a
\* member of D's chunk-id set.
C38_NoOrphanAfterDeleteAndStore ==
  (/\ proc[1].op = "store" /\ proc[1].pc = "done" /\ proc[1].outcome = "ok"
   /\ proc[2].op = "delete" /\ proc[2].pc = "done" /\ proc[2].outcome = "ok"
   /\ ops = 2) =>
    \A k \in RecordsOf("d1") : hashes[k].id \in Members(ChunksKey("d1"))


\* ================================================================ searchSimilar
\* over chunks stored with and without an embedding
MarkedInit ==
  /\ ChatAtRest
  /\ VecAtRest
  /\ CosAtRest
  /\ IngestAtRest
  /\ hashes = EmptyMap
  /\ sets = EmptyMap

MarkedNext ==
  \/ StartStore(1, MarkedBatch)
  \/ \E q \in Queries, limit \in Limits, th \in Thresholds : StartSearch(1, q, limit, th)
  \/ \E ok \in BOOLEAN : Connect(1, ok)
  \/ \E ok \in BOOLEAN : StoreHSET(1, ok)
  \/ \E ok \in BOOLEAN : StoreSADD(1, ok)
  \/ \E ok \in BOOLEAN :
       \E order \in Orders({ k \in AllKeys : MatchesChunkPattern(k) }) : SearchKEYS(1, ok, order)
  \/ \E ok \in BOOLEAN : SearchHGETALL(1, ok)

MarkedSpec == MarkedInit /\ [][MarkedNext]_vars

HasVector(rec) == rec.embedding.json = "array" /\ rec.embedding.v # <<>>

Min(a, b) == IF a <= b THEN a ELSE b

\* C39: a stored chunk whose embedding is missing, null or failed is never returned
\* by a similarity search, and one unreadable or malformed chunk record does not
\* prevent the other stored chunks from being scored and returned.
C39_OnlyEmbeddedChunksReturnedDespiteBadRecords ==
  \A p \in Procs :
    SearchDone(p) =>
      /\ \A i \in 1 .. Len(proc[p].out) :
           \E k \in DOMAIN hashes :
             /\ hashes[k].id = proc[p].out[i].id
             /\ HasVector(hashes[k])
      /\ proc[p].keys # <<>> =>
           Len(proc[p].out) >=
             Min(proc[p].limit,
                 Cardinality(Qualifying(proc[p].query, proc[p].threshold)) - proc[p].failures)


\* ================================================================ the metrics
MetricsInit ==
  /\ ChatAtRest
  /\ VecAtRest
  /\ CosAtRest
  /\ IngestAtRest
  /\ hashes = EmptyMap
  /\ sets = EmptyMap

\* sendMessage, lines 83-106: an error status or an error body is thrown before
\* updateMetrics; any other result is recorded. Next to each series the turns that
\* gave its samples are kept.
SendMessage(result) ==
  /\ metrics.data.totalRequests < MaxRecorded
  /\ IF result.kind = "error"
       THEN metrics' = metrics
       ELSE LET update == UpdateOf(result)
            IN metrics' =
                 [data |-> updateMetrics(metrics.data, update),
                  langcacheTurns |->
                    IF actualCacheHit(update)
                      THEN KeepLast(Append(metrics.langcacheTurns, result), SeriesLength)
                      ELSE metrics.langcacheTurns,
                  openaiTurns |->
                    IF ~actualCacheHit(update)
                      THEN KeepLast(Append(metrics.openaiTurns, result), SeriesLength)
                      ELSE metrics.openaiTurns]
  /\ UNCHANGED << chunker, embedder, queryRoute, documents, chatVars, vecVars, cosVars >>

\* resetMetrics
ResetMetrics ==
  /\ metrics # NoMetrics
  /\ metrics' = NoMetrics
  /\ UNCHANGED << chunker, embedder, queryRoute, documents, chatVars, vecVars, cosVars >>

MetricsNext ==
  \/ \E result \in ChatResults : SendMessage(result)
  \/ ResetMetrics

MetricsSpec == MetricsInit /\ [][MetricsNext]_vars

\* C40: after any sequence of recorded chat turns, a latency sample is in the
\* cache-latency series only if that turn's answer was served from the cache, and
\* in the generation-latency series only if it was a measured generation call; a
\* shadow-mode turn is never recorded in the cache-latency series.
C40_LatencySeriesMatchTheirSource ==
  /\ \A i \in 1 .. Len(metrics.data.langcacheLatencies) :
       /\ metrics.langcacheTurns[i].kind = "hit"
       /\ metrics.langcacheTurns[i].latency = metrics.data.langcacheLatencies[i]
  /\ \A i \in 1 .. Len(metrics.data.openaiLatencies) :
       /\ metrics.openaiTurns[i].kind \in { "fresh", "shadow" }
       /\ metrics.openaiTurns[i].latency = metrics.data.openaiLatencies[i]

====
